---- MODULE Spec2Model ----
(***************************************************************************)
(* Model of the wt worktree lifecycle manager (src/src/index.ts).          *)
(*                                                                         *)
(* The program is a CLI process that drives git, the filesystem and zellij *)
(* one external command at a time.  The state is the state of those        *)
(* external tools (worktree directories, git's worktree registry,          *)
(* branches, the commits on them, main, zellij sessions, .env.local files, *)
(* the configuration file) plus the position and locals of the running wt  *)
(* process.  Every await of the source is one step of the process.         *)
(***************************************************************************)
EXTENDS Integers, Sequences, FiniteSets, TLC

(***************************************************************************)
(* Bounds of the model.                                                    *)
(***************************************************************************)
\* commits an operator makes on one branch during one session
MaxCommits == 3
\* key/value pairs the environment function returns
MaxEnvVars == 2
\* ports above the start of the scan range that may be in use
MaxBusy == 4

\* the longest .gitignore wt init is given, in characters
MaxChars == 4

\* the most runs of wt init in one behaviour
MaxInits == 3

\* the most servers the operator starts in the sessions
MaxServers == 1

(***************************************************************************)
(* Constants of the program.                                               *)
(***************************************************************************)
\* for (let port = 3002; ...
PortLow == 3002
\* ...; port < 4000; port++)
PortHigh == 4000

(***************************************************************************)
(* Labels.  A label is a string, modelled as a sequence of characters.     *)
(***************************************************************************)
\* a sample of the characters of [a-zA-Z0-9_-]
LabelChars == {"a", "b", "Z", "0", "9", "_", "-"}

\* ValidLabel with the character class left out: any non-empty string
ValidLabelNonEmpty(l) == Len(l) > 0

\* /^[a-zA-Z0-9_-]+$/.test(label)
ValidLabel(l) == Len(l) > 0 /\ \A i \in DOMAIN l : l[i] \in LabelChars

\* the labels the operator (or humanId) uses for worktrees
Labels == {<<"a">>, <<"a", "b">>}

\* what may be typed as the label argument
LabelInputs ==
    Labels \cup {<<>>, <<"a", "/">>, <<"a", " ">>, <<".", ".">>}

\* the label argument was omitted (undefined)
NoLabel == <<"<undefined>">>

\* humanId({separator: "-", capitalize: false}): some readable phrase
HumanId == Labels

(***************************************************************************)
(* Small value sets.                                                       *)
(***************************************************************************)
\* the k-th commit made on branch l (a commit hash, a non-empty string)
Commit(l, k) == <<"c">> \o l \o <<ToString(k)>>

\* the empty string, as a line of command output
EmptyLine == <<>>

\* no file at a path
NoFile == <<"<no file>">>

\* `${wtDir}/worktrees`, the line wt init adds to .gitignore, as one token
WorktreesPattern == ".wt/worktrees"

\* no value bound yet to a local of the process
Undef == <<"<undef>">>

EnvKeys == {"PORT", "ADMIN_PORT"}

RECURSIVE SeqsOver(_, _)
\* all sequences over S of length at most n
SeqsOver(S, n) ==
    IF n = 0 THEN {<<>>}
    ELSE LET shorter == SeqsOver(S, n - 1)
         IN  shorter \cup {Append(s, x) : s \in shorter, x \in S}

\* the environment functions a configuration may define: the keys of the
\* object it returns, in insertion order (keys are distinct), each filled
\* with `await findAvailablePort()`
EnvKeySeqs ==
    {e \in SeqsOver(EnvKeys, MaxEnvVars) :
        \A i, j \in DOMAIN e : i # j => e[i] # e[j]}

\* nothing is waiting on stdin
NoInput == <<"<no input>">>

\* raw lines the operator may type at a prompt
Answers ==
    {<<"y", "\n">>, <<"y", "e", "s">>, <<" ", "Y", "E", "S", "\n">>,
     <<"n", "\n">>, <<"\n">>, <<"y", "y", "\n">>}

(***************************************************************************)
(* State.                                                                  *)
(***************************************************************************)
VARIABLES
    \* external world
    dirExists,      \* [label -> BOOLEAN] <configDir>/worktrees/<label> exists
    registered,     \* [label -> BOOLEAN] git's worktree registry has the path
    branch,         \* [label -> BOOLEAN] branch <label> exists
    branchCommits,  \* [label -> Seq] commits of main..<label>, oldest first
    main,           \* commits main gained since the invocation started
    session,        \* [label -> "none" | "running" | "exited"] zellij wt-<label>
    envFile,        \* [label -> content of .env.local, or NoFile]
    scaffold,       \* [label -> BOOLEAN] local/ was copied into the worktree
    installed,      \* [label -> BOOLEAN] bun install ran in the worktree
    config,         \* "missing" | "noenv" | "env": <configDir>/config.ts
    \* the wt process
    pc,             \* position of the process
    cmd,            \* "none" | "new" | "cleanup" | "cleanupAll"
    label,          \* the label in hand
    existed,        \* result of the last existsSync(worktreePath)
    hasUnmerged,    \* local of cleanupWorktree
    commits,        \* local of cleanupWorktree: the lines to cherry-pick
    ci,             \* index of the next line of commits
    worktrees,      \* local of cleanupAllWorktrees
    wi,             \* index of the next label of worktrees
    envVars,        \* local of createWorktree: the entries environment() returned
    zellij,         \* "none" | "session" | "refused": the child process
    exitCode,       \* exit status of the process (0 until it fails)
    log,            \* external commands and prompts of this invocation
    argv,           \* the label argument as typed on the command line
    stdin,          \* the line typed and not yet read, or NoInput
    sessions,       \* local of openWorktree: the lines of the session listing
    \* findAvailablePort
    inUse,          \* the ports something listens on
    filtered,       \* the ports on which a connection attempt gets no answer
    port,           \* the loop variable of findAvailablePort
    probed,         \* the ports isPortAvailable was called with, in order
    returned,       \* the port returned, 0 while there is none
    fpc,            \* "idle" | "scan" | "returned" | "thrown"
    envKeys,        \* the keys the environment function fills, in order
    \* findAvailablePorts (the adjacent-pair allocator)
    pairPort,       \* the loop variable of findAvailablePorts
    webhookAvailable, \* local: the result of the first probe of the iteration
    adminPort,      \* the adminPort returned, 0 while there is none
    webhookPort,    \* the webhookPort returned, 0 while there is none
    pairProbed,     \* the ports isPortAvailable was called with, in order
    ppc,            \* "idle" | "webhook" | "admin" | "returned" | "thrown"
    \* wt init
    layoutFile,     \* <configDir>/layout.kdl: "absent" | "template" | "edited"
    gitignore,      \* the characters of .gitignore, or NoFile
    ipc,            \* the number of times wt init has run in this behaviour
    \* a second wt process
    parked          \* the registers of the wt process that is not stepping:
                    \* <<>> when there is one process, else <<registers>>

worldVars ==
    <<dirExists, registered, branch, branchCommits, main, session, envFile,
      scaffold, installed, config>>

cleanupLocals == <<hasUnmerged, commits, ci>>

batchLocals == <<worktrees, wi>>

portVars == <<inUse, filtered, port, probed, returned, fpc>>

pairVars ==
    <<pairPort, webhookAvailable, adminPort, webhookPort, pairProbed, ppc>>

initVars == <<layoutFile, gitignore, ipc>>

envLocals == <<envVars, envKeys>>

\* what no step of createWorktree, cleanupWorktree, cleanupAllWorktrees or
\* openWorktree outside the environment call touches
otherVars == <<portVars, pairVars, initVars, parked>>

vars ==
    <<dirExists, registered, branch, branchCommits, main, session, envFile,
      scaffold, installed, config, pc, cmd, label, existed, hasUnmerged,
      commits, ci, worktrees, wi, envVars, zellij, exitCode, log, argv,
      stdin, sessions, inUse, filtered, port, probed, returned, fpc,
      envKeys,
      pairPort, webhookAvailable, adminPort, webhookPort, pairProbed, ppc,
      layoutFile, gitignore, ipc, parked>>

(***************************************************************************)
(* Pure helpers, computed as the source computes them.                     *)
(***************************************************************************)
RECURSIVE Reverse(_)
\* Array.prototype.reverse
Reverse(s) == IF s = <<>> THEN <<>> ELSE Append(Reverse(Tail(s)), Head(s))

Whitespace == {" ", "\n"}

RECURSIVE TrimStart(_)
TrimStart(s) ==
    IF s # <<>> /\ Head(s) \in Whitespace THEN TrimStart(Tail(s)) ELSE s

\* String.prototype.trim on a character sequence
Trim(s) == Reverse(TrimStart(Reverse(TrimStart(s))))

\* String.prototype.toLowerCase on the characters prompts use
LowerChar(c) ==
    CASE c = "Y" -> "y"
      [] c = "E" -> "e"
      [] c = "S" -> "s"
      [] c = "N" -> "n"
      [] OTHER -> c

ToLowerCase(s) == [i \in DOMAIN s |-> LowerChar(s[i])]

\* PromptUser taking every line for a yes
PromptUserAlways(data) == TRUE

\* PromptUser on the raw line, neither trimmed nor lower-cased
PromptUserExact(data) == data = <<"y">> \/ data = <<"y", "e", "s">>

\* promptUser: data.toString().trim().toLowerCase() is "y" or "yes"
PromptUser(data) ==
    LET input == ToLowerCase(Trim(data))
    IN  input = <<"y">> \/ input = <<"y", "e", "s">>

\* stdout.toString().trim().split("\n") of a command that prints one
\* commit per line: "" splits into the one-element array [""]
SplitLines(printed) == IF printed = <<>> THEN <<EmptyLine>> ELSE printed

\* git rev-list main..<label>: the unique commits, newest first
RevList(l) == Reverse(branchCommits[l])

\* CommitsToPick with the reversal left out: the newest-first order of
\* git rev-list is kept
CommitsToPickNewestFirst(printed) == SplitLines(printed)

\* commitsResult.stdout.toString().trim().split("\n").reverse()
CommitsToPick(printed) == Reverse(SplitLines(printed))

\* git log main..<branch> --oneline: non-empty output
LogNonEmpty(l) == Len(branchCommits[l]) > 0

\* one log entry
Entry(op, arg, ok) == [op |-> op, arg |-> arg, ok |-> ok]

Logged(op, arg, ok) == log' = Append(log, Entry(op, arg, ok))

\* showError: console.error, process.exit(1)
ShowError == pc' = "exited" /\ exitCode' = 1

\* the process ends normally
ExitOk == pc' = "exited" /\ exitCode' = 0

(***************************************************************************)
(* Paths and the output of git worktree list --porcelain.                  *)
(***************************************************************************)
\* `${process.cwd()}/${configDir}/worktrees/`, as path tokens
WorktreesDir == <<"cwd", "/", ".wt", "/", "worktrees", "/">>

\* `${process.cwd()}/${configDir}/worktrees/${label}`
WorktreePath(l) == WorktreesDir \o l

\* the primary checkout, always the first worktree git lists
MainPath == <<"cwd">>

\* the porcelain block of one worktree: its path line, two attribute
\* lines and the blank line that ends the block
PorcelainBlock(path) ==
    <<(<<"worktree ">> \o path), <<"HEAD">>, <<"branch">>, <<>>>>

RECURSIVE Porcelain(_)
\* the lines git prints for the primary checkout and the labels of order
Porcelain(paths) ==
    IF paths = <<>> THEN <<>>
    ELSE PorcelainBlock(Head(paths)) \o Porcelain(Tail(paths))

\* line.startsWith(prefix)
StartsWith(line, prefix) ==
    Len(line) >= Len(prefix) /\ SubSeq(line, 1, Len(prefix)) = prefix

\* line.substring(n)
Substring(line, n) == SubSeq(line, n + 1, Len(line))

RECURSIVE GetAllWorktrees(_)
\* the loop of getAllWorktrees over the lines of the listing
GetAllWorktrees(lines) ==
    IF lines = <<>> THEN <<>>
    ELSE LET line == Head(lines)
             rest == GetAllWorktrees(Tail(lines))
         IN  IF line # <<>> /\ StartsWith(line, <<"worktree ">> \o WorktreesDir)
             THEN LET worktreePath == Substring(line, 1)
                      lbl == Substring(worktreePath, Len(WorktreesDir))
                  IN  IF lbl # <<>> THEN <<lbl>> \o rest ELSE rest
             ELSE rest

\* the orders in which git may list the registered managed worktrees
ListingOrders ==
    LET S == {l \in Labels : registered[l]}
    IN  {o \in SeqsOver(S, Cardinality(S)) :
            /\ Len(o) = Cardinality(S)
            /\ \A i, j \in DOMAIN o : i # j => o[i] # o[j]}

\* the paths git lists: the primary checkout, then the managed worktrees
ListedPaths(order) ==
    <<MainPath>> \o [i \in DOMAIN order |-> WorktreePath(order[i])]

(***************************************************************************)
(* The environment file.                                                   *)
(***************************************************************************)
RECURSIVE EnvContent(_)
\* envContent += `${key}=${value}\n` for each entry, in order
EnvContent(entries) ==
    IF entries = <<>> THEN <<>>
    ELSE <<Head(entries)[1], "=", ToString(Head(entries)[2]), "\n">>
         \o EnvContent(Tail(entries))

(***************************************************************************)
(* Initial states.  wt keeps no state of its own: an invocation starts in  *)
(* whatever state earlier invocations and the operator left the            *)
(* repository.  Each label is in one of the states below, and the process  *)
(* has not started.                                                        *)
(***************************************************************************)
\* the commits 1..k of branch l, oldest first
CommitsUpTo(l, k) == [i \in 1..k |-> Commit(l, i)]

\* never created, or cleaned up completely
AbsentStates(l) ==
    {[dir |-> FALSE, reg |-> FALSE, br |-> FALSE, cs |-> <<>>,
      sess |-> "none", env |-> NoFile, scaf |-> FALSE, inst |-> FALSE]}

\* left by wt new: with the session never started (the configuration was
\* missing), still running (detached) or exited (quit); with or without an
\* environment file (the configuration may define no environment); with the
\* commits the operator made on the branch
LiveStates(l) ==
    {[dir |-> TRUE, reg |-> TRUE, br |-> TRUE, cs |-> CommitsUpTo(l, k),
      sess |-> s, env |-> f, scaf |-> TRUE, inst |-> TRUE] :
        k \in 0..MaxCommits,
        s \in {"none", "running", "exited"},
        f \in {NoFile, EnvContent(<<<<"PORT", PortLow>>>>)}}

\* a worktree of wt new whose directory the operator deleted by hand: git
\* still has it registered
StaleStates(l) ==
    {[dir |-> FALSE, reg |-> TRUE, br |-> TRUE, cs |-> <<>>,
      sess |-> "exited", env |-> NoFile, scaf |-> FALSE, inst |-> FALSE]}

LabelStates(l) == AbsentStates(l) \cup LiveStates(l) \cup StaleStates(l)

\* config.ts: not written yet, without or with an environment function
Configs == {"missing", "noenv", "env"}

\* what listens on the ports when wt starts: nothing, a server on the first
\* port of the range, or servers on every port of the range
BusyWorlds == {{}, {PortLow}, PortLow..(PortHigh - 1)}

\* the wt process has not started
IdleProcess ==
    /\ pc = "idle"
    /\ cmd = "none"
    /\ label = Undef
    /\ existed = FALSE
    /\ hasUnmerged = FALSE
    /\ commits = <<>>
    /\ ci = 1
    /\ worktrees = <<>>
    /\ wi = 1
    /\ envVars = <<>>
    /\ envKeys = <<>>
    /\ zellij = "none"
    /\ exitCode = 0
    /\ log = <<>>
    /\ argv = Undef
    /\ stdin = NoInput
    /\ sessions = <<>>

\* findAvailablePort has not been called
IdleAllocator ==
    /\ port = PortLow
    /\ probed = <<>>
    /\ returned = 0
    /\ fpc = "idle"

\* every connection attempt to localhost is answered: accepted by a
\* listener or refused
NoFilter == filtered = {}

\* findAvailablePorts has not been called
IdlePair ==
    /\ pairPort = PortLow
    /\ webhookAvailable = FALSE
    /\ adminPort = 0
    /\ webhookPort = 0
    /\ pairProbed = <<>>
    /\ ppc = "idle"

\* wt init ran before the behaviour starts: the layout file is there and
\* .gitignore has the line
Initialized ==
    /\ layoutFile = "template"
    /\ gitignore = <<WorktreesPattern, "\n">>
    /\ ipc = 0

\* there is no second wt process
NoParked == parked = <<>>

Init ==
    /\ \E w \in [Labels -> UNION {LabelStates(l) : l \in Labels}] :
        /\ \A l \in Labels : w[l] \in LabelStates(l)
        /\ dirExists = [l \in Labels |-> w[l].dir]
        /\ registered = [l \in Labels |-> w[l].reg]
        /\ branch = [l \in Labels |-> w[l].br]
        /\ branchCommits = [l \in Labels |-> w[l].cs]
        /\ session = [l \in Labels |-> w[l].sess]
        /\ envFile = [l \in Labels |-> w[l].env]
        /\ scaffold = [l \in Labels |-> w[l].scaf]
        /\ installed = [l \in Labels |-> w[l].inst]
    /\ main = <<>>
    /\ config \in Configs
    /\ IdleProcess
    /\ inUse \in (IF config = "env" /\ \A l \in Labels : ~dirExists[l] /\ ~registered[l]
                  THEN BusyWorlds ELSE {{}})
    /\ IdleAllocator
    /\ NoFilter
    /\ IdlePair
    /\ Initialized
    /\ NoParked

(***************************************************************************)
(* The command line: one wt invocation.                                    *)
(***************************************************************************)
\* the command action starts with the label argument typed and the label l
\* in hand: nothing has run or been logged yet
Launch(c, typed, l, at) ==
    /\ pc = "idle"
    /\ cmd' = c
    /\ argv' = typed
    /\ label' = l
    /\ pc' = at
    /\ UNCHANGED <<stdin, sessions, otherVars,
                   worldVars, existed, cleanupLocals, batchLocals, envLocals,
                   zellij, exitCode, log>>

\* wt new [label]: createWorktree generates a label when none is given
\* (undefined or the empty string: !label)
NewCommand ==
    \E l \in LabelInputs \cup {NoLabel} :
        IF l = NoLabel \/ l = <<>>
        THEN \E g \in HumanId : Launch("new", l, g, "cr_validate")
        ELSE Launch("new", l, l, "cr_validate")

\* wt cleanup <label>: validated by the command action, then cleanupWorktree
CleanupCommand ==
    \E l \in LabelInputs :
        /\ l # <<>>
        /\ Launch("cleanup", l, l, "cli_validate")

\* wt cleanup with no label (the empty string is as falsy and takes the
\* same path): cleanupAllWorktrees
CleanupAllCommand == Launch("cleanupAll", NoLabel, Undef, "ca_list")

\* wt open <label>: validated by the command action, then openWorktree
OpenCommand ==
    \E l \in LabelInputs : Launch("open", l, l, "op_validate")

\* the label test of the open command action
OpenValidate ==
    /\ pc = "op_validate"
    /\ IF ValidLabel(label)
       THEN pc' = "op_exists" /\ UNCHANGED exitCode
       ELSE ShowError
    /\ UNCHANGED <<argv, stdin, sessions, otherVars, worldVars, cmd, label,
                   existed, cleanupLocals, batchLocals, envLocals, zellij, log>>

\* the label test of the cleanup command action
CleanupValidate ==
    /\ pc = "cli_validate"
    /\ IF ValidLabel(label)
       THEN pc' = "cl_exists" /\ UNCHANGED exitCode
       ELSE ShowError
    /\ UNCHANGED <<argv, stdin, sessions, otherVars,
                   worldVars, cmd, label, existed, cleanupLocals, batchLocals,
                   envLocals, zellij, log>>


(***************************************************************************)
(* findAvailablePort: the scan of the range [PortLow, PortHigh), one probe *)
(* per step.                                                               *)
(***************************************************************************)
\* everything but the state of the allocator
wtVars ==
    <<worldVars, pc, cmd, label, existed, cleanupLocals, batchLocals,
      envLocals, zellij, exitCode, log, argv, stdin, sessions, pairVars,
      initVars, parked>>

\* isPortAvailable: the connection to localhost:port is refused
IsPortAvailable(p) == p \notin inUse

\* NextPort with a stride of two
NextPortSkips(p) == p + 2

\* port++
NextPort(p) == p + 1

\* findAvailablePort is called: let port = 3002
FindStart ==
    /\ fpc = "idle"
    /\ fpc' = "scan"
    /\ port' = PortLow
    /\ probed' = <<>>
    /\ returned' = 0
    /\ UNCHANGED <<wtVars, inUse, filtered>>

\* the promise of isPortAvailable(p) resolves on the connect callback or on
\* the error event: the attempt was answered
Answered(p) == p \notin filtered

\* one iteration of the loop: await isPortAvailable(port), return or port++
FindProbe ==
    /\ fpc = "scan"
    /\ port < PortHigh
    /\ Answered(port)
    /\ probed' = Append(probed, port)
    /\ IF IsPortAvailable(port)
       THEN returned' = port /\ fpc' = "returned" /\ UNCHANGED port
       ELSE port' = NextPort(port) /\ UNCHANGED <<returned, fpc>>
    /\ UNCHANGED <<wtVars, inUse, filtered>>

\* the loop ends: throw new Error("No port available in range 3002-4000")
FindThrow ==
    /\ fpc = "scan"
    /\ ~(port < PortHigh)
    /\ fpc' = "thrown"
    /\ UNCHANGED <<wtVars, inUse, filtered, port, probed, returned>>

(***************************************************************************)
(* createWorktree.                                                         *)
(***************************************************************************)
\* the label test of createWorktree
CreateValidate ==
    /\ pc = "cr_validate"
    /\ IF ValidLabel(label)
       THEN pc' = "cr_exists" /\ UNCHANGED exitCode
       ELSE ShowError
    /\ UNCHANGED <<argv, stdin, sessions, otherVars,
                   worldVars, cmd, label, existed, cleanupLocals, batchLocals,
                   envLocals, zellij, log>>

\* CreateBranchOf with the existence test ignored: always create
CreateBranchAlwaysAdd(found) == "cr_add"

\* the step createWorktree takes after existsSync(worktreePath)
CreateBranchOf(found) == IF found THEN "cr_config" ELSE "cr_add"

\* if (existsSync(worktreePath)) ... else ...
CreateExists ==
    /\ pc = "cr_exists"
    /\ existed' = dirExists[label]
    /\ pc' = CreateBranchOf(dirExists[label])
    /\ UNCHANGED <<argv, stdin, sessions, otherVars,
                   worldVars, cmd, label, cleanupLocals, batchLocals, envLocals,
                   zellij, exitCode, log>>

\* CreateCatch with the error swallowed: createWorktree goes on to load the
\* configuration
CreateCatchContinues == pc' = "cr_config" /\ UNCHANGED exitCode

\* catch (error) { showError(`Failed to create worktree: ${error}`) }: each
\* of the three creation commands throws when it exits non-zero
CreateCatch == ShowError

\* WorktreeAddRefused with a git that refuses nothing
WorktreeAddRefusedNever(l) == FALSE

\* git refuses to add a worktree whose branch, path or registration exists
WorktreeAddRefused(l) == branch[l] \/ registered[l] \/ dirExists[l]

\* await $`git worktree add ${worktreePath} -b ${label}`
CreateAdd ==
    /\ pc = "cr_add"
    /\ \/ /\ ~WorktreeAddRefused(label)
          /\ dirExists' = [dirExists EXCEPT ![label] = TRUE]
          /\ registered' = [registered EXCEPT ![label] = TRUE]
          /\ branch' = [branch EXCEPT ![label] = TRUE]
          /\ branchCommits' = [branchCommits EXCEPT ![label] = <<>>]
          /\ Logged("git worktree add", label, TRUE)
          /\ pc' = "cr_cp"
          /\ UNCHANGED exitCode
       \/ /\ Logged("git worktree add", label, FALSE)
          /\ CreateCatch
          /\ UNCHANGED <<dirExists, registered, branch, branchCommits>>
    /\ UNCHANGED <<argv, stdin, sessions, otherVars,
                   main, session, envFile, scaffold, installed, config, cmd,
                   label, existed, cleanupLocals, batchLocals, envLocals, zellij>>

\* await $`cp -r local ${worktreePath}/local`
CreateCopy ==
    /\ pc = "cr_cp"
    /\ \/ /\ dirExists[label]
          /\ scaffold' = [scaffold EXCEPT ![label] = TRUE]
          /\ Logged("cp -r local", label, TRUE)
          /\ pc' = "cr_install"
          /\ UNCHANGED exitCode
       \/ /\ Logged("cp -r local", label, FALSE)
          /\ CreateCatch
          /\ UNCHANGED scaffold
    /\ UNCHANGED <<argv, stdin, sessions, otherVars,
                   dirExists, registered, branch, branchCommits, main, session,
                   envFile, installed, config, cmd, label, existed,
                   cleanupLocals, batchLocals, envLocals, zellij>>

\* await $`cd ${worktreePath} && bun install`
CreateInstall ==
    /\ pc = "cr_install"
    /\ \/ /\ dirExists[label]
          /\ installed' = [installed EXCEPT ![label] = TRUE]
          /\ Logged("bun install", label, TRUE)
          /\ pc' = "cr_config"
          /\ UNCHANGED exitCode
       \/ /\ Logged("bun install", label, FALSE)
          /\ CreateCatch
          /\ UNCHANGED installed
    /\ UNCHANGED <<argv, stdin, sessions, otherVars,
                   dirExists, registered, branch, branchCommits, main, session,
                   envFile, scaffold, config, cmd, label, existed,
                   cleanupLocals, batchLocals, envLocals, zellij>>

\* loadConfig(configDir): fatal when the file is missing or invalid
CreateLoadConfig ==
    /\ pc = "cr_config"
    /\ IF config = "missing"
       THEN ShowError /\ Logged("loadConfig", label, FALSE)
       ELSE pc' = "cr_env" /\ Logged("loadConfig", label, TRUE)
                           /\ UNCHANGED exitCode
    /\ UNCHANGED <<argv, stdin, sessions, otherVars,
                   worldVars, cmd, label, existed, cleanupLocals, batchLocals,
                   envLocals, zellij>>

\* WriteFileSync as an append (appendFileSync): the earlier content stays
WriteFileAppend(before, content) ==
    IF before = NoFile THEN content ELSE before \o content

\* writeFileSync(envPath, envContent): the file holds envContent alone,
\* whatever it held before
WriteFileSync(before, content) == content

\* config.environment && typeof config.environment === "function"
HasEnvironment(c) == c = "env"

\* Uncaught with the rejection dropped: createWorktree goes on to launch
\* the session
UncaughtContinues == pc' = "cr_spawn" /\ UNCHANGED exitCode

\* a rejection no handler catches: the runtime prints the error and the
\* process ends with status 1
Uncaught == pc' = "exited" /\ exitCode' = 1

\* if (config.environment && ...) { const envVars = await
\* config.environment({ findAvailablePort }) ...: the call of the environment
\* function, which is not inside a try.  The function fills its keys one by
\* one from findAvailablePort, or throws for a reason of its own.
CreateEnvironment ==
    /\ pc = "cr_env"
    /\ IF HasEnvironment(config)
       THEN \/ \E keys \in EnvKeySeqs :
                 /\ envKeys' = keys
                 /\ envVars' = <<>>
                 /\ pc' = "cr_alloc"
                 /\ UNCHANGED <<exitCode, log>>
            \/ /\ Logged("environment", label, FALSE)
               /\ Uncaught
               /\ UNCHANGED envLocals
       ELSE /\ pc' = "cr_spawn"
            /\ UNCHANGED <<envLocals, exitCode, log>>
    /\ UNCHANGED <<argv, stdin, sessions, otherVars, worldVars, cmd, label,
                   existed, cleanupLocals, batchLocals, zellij>>

\* the environment function has a key left to fill
KeyLeft == Len(envVars) < Len(envKeys)

\* the environment function calls findAvailablePort for its next key
EnvironmentFind ==
    /\ pc = "cr_alloc"
    /\ KeyLeft
    /\ FindStart

\* findAvailablePort, called by the environment function, probes a port
EnvironmentProbe ==
    /\ pc = "cr_alloc"
    /\ FindProbe

\* findAvailablePort returns to the environment function: the key gets the
\* port
EnvironmentPort ==
    /\ pc = "cr_alloc"
    /\ fpc = "returned"
    /\ envVars' = Append(envVars, <<envKeys[Len(envVars) + 1], returned>>)
    /\ fpc' = "idle"
    /\ UNCHANGED <<worldVars, pc, cmd, label, existed, cleanupLocals,
                   batchLocals, envKeys, zellij, exitCode, log, argv, stdin,
                   sessions, inUse, filtered, port, probed, returned,
                   pairVars,
                   initVars, parked>>

\* findAvailablePort throws inside the environment function
EnvironmentExhausted ==
    /\ pc = "cr_alloc"
    /\ FindThrow

\* the throw of findAvailablePort leaves the environment function and
\* createWorktree: nothing catches it
EnvironmentThrows ==
    /\ pc = "cr_alloc"
    /\ fpc = "thrown"
    /\ Logged("environment", label, FALSE)
    /\ Uncaught
    /\ UNCHANGED <<argv, stdin, sessions, otherVars, worldVars, cmd, label,
                   existed, cleanupLocals, batchLocals, envLocals, zellij>>

\* the environment function returns: for (const [key, value] of
\* Object.entries(envVars)) envContent += ...; writeFileSync(envPath,
\* envContent)
CreateWriteEnv ==
    /\ pc = "cr_alloc"
    /\ fpc = "idle"
    /\ ~KeyLeft
    /\ IF dirExists[label]
       THEN /\ envFile' = [envFile EXCEPT
                            ![label] = WriteFileSync(@, EnvContent(envVars))]
            /\ log' = log \o <<Entry("environment", label, TRUE),
                               Entry("writeFileSync", label, TRUE)>>
            /\ pc' = "cr_spawn"
            /\ UNCHANGED exitCode
       ELSE \* the directory is gone: writeFileSync throws ENOENT
            /\ log' = log \o <<Entry("environment", label, TRUE),
                               Entry("writeFileSync", label, FALSE)>>
            /\ Uncaught
            /\ UNCHANGED envFile
    /\ UNCHANGED <<argv, stdin, sessions, otherVars, dirExists, registered,
                   branch, branchCommits, main, session, scaffold, installed,
                   config, cmd, label, existed, cleanupLocals, batchLocals,
                   envLocals, zellij>>

\* spawn(["zellij", "-n", layoutPath, "-s", sessionName], {cwd: worktreePath})
\* zellij starts a session of that name, or refuses when one exists already
CreateSpawn ==
    /\ pc = "cr_spawn"
    /\ \/ /\ dirExists[label]
          /\ session[label] = "none"
          /\ session' = [session EXCEPT ![label] = "running"]
          /\ zellij' = "session"
          /\ Logged("zellij -n -s", label, TRUE)
          /\ pc' = "cr_session"
          /\ UNCHANGED exitCode
       \/ /\ dirExists[label]
          /\ session[label] # "none"
          /\ zellij' = "refused"
          /\ Logged("zellij -n -s", label, TRUE)
          /\ pc' = "cr_session"
          /\ UNCHANGED <<session, exitCode>>
       \/ /\ Logged("zellij -n -s", label, FALSE)
          /\ ShowError
          /\ UNCHANGED <<session, zellij>>
    /\ UNCHANGED <<argv, stdin, sessions, otherVars,
                   dirExists, registered, branch, branchCommits, main, envFile,
                   scaffold, installed, config, cmd, label, existed,
                   cleanupLocals, batchLocals, envLocals>>

\* CreateSessionExit without the await: createWorktree goes on to its prompt
\* while the child is still running
CreateSessionNoAwait ==
    /\ pc = "cr_session"
    /\ pc' = "cr_prompt"
    /\ UNCHANGED <<argv, stdin, sessions, otherVars, worldVars, cmd, label,
                   existed, cleanupLocals, batchLocals, envLocals, zellij,
                   exitCode, log>>

\* await zellijProc.exited: the operator quits (the session stays
\* resurrectable) or detaches (it keeps running); a refused start exits at once
CreateSessionExit ==
    /\ pc = "cr_session"
    /\ \/ /\ zellij = "session"
          /\ \E after \in {"running", "exited"} :
                session' = [session EXCEPT ![label] = after]
       \/ /\ zellij = "refused"
          /\ UNCHANGED session
    /\ zellij' = "none"
    /\ pc' = "cr_prompt"
    /\ UNCHANGED <<argv, stdin, sessions, otherVars,
                   dirExists, registered, branch, branchCommits, main, envFile,
                   scaffold, installed, config, cmd, label, existed,
                   cleanupLocals, batchLocals, envLocals, exitCode, log>>

\* promptUser("Do you want to clean up the worktree ...?")
CreatePrompt ==
    /\ pc = "cr_prompt"
    /\ stdin # NoInput
    /\ stdin' = NoInput
    /\ LET data == stdin IN
        /\ Logged("prompt cleanup", label, PromptUser(data))
        /\ IF PromptUser(data)
           THEN pc' = "cl_exists" /\ UNCHANGED exitCode
           ELSE ExitOk
    /\ UNCHANGED <<argv, sessions, otherVars,
                   worldVars, cmd, label, existed, cleanupLocals, batchLocals,
                   envLocals, zellij>>


(***************************************************************************)
(* cleanupWorktree.                                                        *)
(***************************************************************************)
\* CleanupCatch with the error only reported: console.error without
\* process.exit, so cleanupWorktree returns to its caller
CleanupCatchReturns == pc' = "cl_return" /\ UNCHANGED exitCode

\* catch (error) { showError(`Failed to cleanup worktree: ${error}`) }:
\* every command of the try of cleanupWorktree that exits non-zero throws
CleanupCatch == ShowError

\* WorktreeMissing with the existence check left out
WorktreeMissingNever(l) == FALSE

\* if (!existsSync(worktreePath)) { ...; return; }
WorktreeMissing(l) == ~dirExists[l]

\* entry of cleanupWorktree(label): the existence check
CleanupExists ==
    /\ pc = "cl_exists"
    /\ existed' = ~WorktreeMissing(label)
    /\ Logged("cleanupWorktree", label, TRUE)
    /\ pc' = IF WorktreeMissing(label) THEN "cl_return" ELSE "cl_log"
    /\ UNCHANGED <<argv, stdin, sessions, otherVars,
                   worldVars, cmd, label, cleanupLocals, batchLocals, envLocals,
                   zellij, exitCode>>

\* HasUnmergedCommits without the catch: the answer is that of the log
\* whether or not the query threw
HasUnmergedCommitsNoCatch(l, threw) == LogNonEmpty(l)

\* hasUnmergedCommits: result.stdout.toString().trim().length > 0, and
\* false when the query throws
HasUnmergedCommits(l, threw) == IF threw THEN FALSE ELSE LogNonEmpty(l)

\* const hasUnmerged = await hasUnmergedCommits(label); the query fails
\* when the branch does not exist, and may fail for any other reason
CleanupHasUnmerged ==
    /\ pc = "cl_log"
    /\ \E threw \in BOOLEAN :
        /\ ~branch[label] => threw
        /\ hasUnmerged' = HasUnmergedCommits(label, threw)
        /\ Logged("git log main..", label, ~threw)
        /\ pc' = IF HasUnmergedCommits(label, threw)
                 THEN "cl_prompt" ELSE "cl_remove"
    /\ UNCHANGED <<argv, stdin, sessions, otherVars,
                   worldVars, cmd, label, existed, commits, ci, batchLocals,
                   envLocals, zellij, exitCode>>

\* promptUser("Do you want to cherry-pick them into main first?")
CleanupPrompt ==
    /\ pc = "cl_prompt"
    /\ stdin # NoInput
    /\ stdin' = NoInput
    /\ LET data == stdin IN
        /\ Logged("prompt cherry-pick", label, PromptUser(data))
        /\ pc' = IF PromptUser(data) THEN "cl_checkout" ELSE "cl_remove"
    /\ UNCHANGED <<argv, sessions, otherVars,
                   worldVars, cmd, label, existed, cleanupLocals, batchLocals,
                   envLocals, zellij, exitCode>>

\* await $`git checkout main`
CleanupCheckout ==
    /\ pc = "cl_checkout"
    /\ \/ /\ Logged("git checkout main", label, TRUE)
          /\ pc' = "cl_revlist"
          /\ UNCHANGED exitCode
       \/ /\ Logged("git checkout main", label, FALSE)
          /\ CleanupCatch
    /\ UNCHANGED <<argv, stdin, sessions, otherVars,
                   worldVars, cmd, label, existed, cleanupLocals, batchLocals,
                   envLocals, zellij>>

\* const commitsResult = await $`git rev-list main..${label}`.quiet();
\* const commits = ...split("\n").reverse()
CleanupRevList ==
    /\ pc = "cl_revlist"
    /\ \/ /\ branch[label]
          /\ commits' = CommitsToPick(RevList(label))
          /\ ci' = 1
          /\ Logged("git rev-list main..", label, TRUE)
          /\ pc' = "cl_pick"
          /\ UNCHANGED exitCode
       \/ /\ Logged("git rev-list main..", label, FALSE)
          /\ CleanupCatch
          /\ UNCHANGED <<commits, ci>>
    /\ UNCHANGED <<argv, stdin, sessions, otherVars,
                   worldVars, cmd, label, existed, hasUnmerged, batchLocals,
                   envLocals, zellij>>

\* for (const commit of commits) { if (commit.trim()) await $`git
\* cherry-pick ${commit}` }: one iteration, or the end of the loop
CleanupCherryPick ==
    /\ pc = "cl_pick"
    /\ \/ /\ ci > Len(commits)
          /\ pc' = "cl_remove"
          /\ UNCHANGED <<main, ci, exitCode, log>>
       \/ /\ ci <= Len(commits)
          /\ Trim(commits[ci]) = <<>>
          /\ ci' = ci + 1
          /\ UNCHANGED <<main, pc, exitCode, log>>
       \/ /\ ci <= Len(commits)
          /\ Trim(commits[ci]) # <<>>
          /\ main' = Append(main, commits[ci])
          /\ ci' = ci + 1
          /\ Logged("git cherry-pick", commits[ci], TRUE)
          /\ UNCHANGED <<pc, exitCode>>
       \/ /\ ci <= Len(commits)
          /\ Trim(commits[ci]) # <<>>
          /\ Logged("git cherry-pick", commits[ci], FALSE)
          /\ CleanupCatch
          /\ UNCHANGED <<main, ci>>
    /\ UNCHANGED <<argv, stdin, sessions, otherVars,
                   dirExists, registered, branch, branchCommits, session,
                   envFile, scaffold, installed, config, cmd, label, existed,
                   hasUnmerged, commits, batchLocals, envLocals, zellij>>

\* CleanupRemove with the worktrees directory as the path: every managed
\* worktree is removed
CleanupRemoveAll ==
    /\ pc = "cl_remove"
    /\ \/ /\ registered[label]
          /\ dirExists' = [l \in Labels |-> FALSE]
          /\ registered' = [l \in Labels |-> FALSE]
          /\ envFile' = [l \in Labels |-> NoFile]
          /\ scaffold' = [l \in Labels |-> FALSE]
          /\ installed' = [l \in Labels |-> FALSE]
          /\ Logged("git worktree remove", label, TRUE)
          /\ pc' = "cl_branch"
          /\ UNCHANGED exitCode
       \/ /\ Logged("git worktree remove", label, FALSE)
          /\ CleanupCatch
          /\ UNCHANGED <<dirExists, registered, envFile, scaffold, installed>>
    /\ UNCHANGED <<argv, stdin, sessions, otherVars,
                   branch, branchCommits, main, session, config, cmd, label,
                   existed, cleanupLocals, batchLocals, envLocals, zellij>>

\* await $`git worktree remove ${worktreePath} --force`
CleanupRemove ==
    /\ pc = "cl_remove"
    /\ \/ /\ registered[label]
          /\ dirExists' = [dirExists EXCEPT ![label] = FALSE]
          /\ registered' = [registered EXCEPT ![label] = FALSE]
          /\ envFile' = [envFile EXCEPT ![label] = NoFile]
          /\ scaffold' = [scaffold EXCEPT ![label] = FALSE]
          /\ installed' = [installed EXCEPT ![label] = FALSE]
          /\ Logged("git worktree remove", label, TRUE)
          /\ pc' = "cl_branch"
          /\ UNCHANGED exitCode
       \/ /\ Logged("git worktree remove", label, FALSE)
          /\ CleanupCatch
          /\ UNCHANGED <<dirExists, registered, envFile, scaffold, installed>>
    /\ UNCHANGED <<argv, stdin, sessions, otherVars,
                   branch, branchCommits, main, session, config, cmd, label,
                   existed, cleanupLocals, batchLocals, envLocals, zellij>>

\* await $`git branch -D ${label}`
CleanupDeleteBranch ==
    /\ pc = "cl_branch"
    /\ \/ /\ branch[label]
          /\ branch' = [branch EXCEPT ![label] = FALSE]
          /\ branchCommits' = [branchCommits EXCEPT ![label] = <<>>]
          /\ Logged("git branch -D", label, TRUE)
          /\ pc' = "cl_session"
          /\ UNCHANGED exitCode
       \/ /\ Logged("git branch -D", label, FALSE)
          /\ CleanupCatch
          /\ UNCHANGED <<branch, branchCommits>>
    /\ UNCHANGED <<argv, stdin, sessions, otherVars,
                   dirExists, registered, main, session, envFile, scaffold,
                   installed, config, cmd, label, existed, cleanupLocals,
                   batchLocals, envLocals, zellij>>

\* CleanupDeleteSession with zellij kill-session in place of
\* delete-session: the session is left in the resurrectable list
CleanupKillSession ==
    /\ pc = "cl_session"
    /\ Logged("zellij delete-session", label, TRUE)
    /\ pc' = "cl_return"
    /\ UNCHANGED <<argv, stdin, sessions, otherVars,
                   worldVars, cmd, label, existed, cleanupLocals, batchLocals,
                   envLocals, zellij, exitCode>>

\* await $`zellij delete-session wt-${label}`: zellij deletes an exited
\* session; it fails when there is none or when it is still running
CleanupDeleteSession ==
    /\ pc = "cl_session"
    /\ IF session[label] = "exited"
       THEN /\ session' = [session EXCEPT ![label] = "none"]
            /\ Logged("zellij delete-session", label, TRUE)
            /\ pc' = "cl_return"
            /\ UNCHANGED exitCode
       ELSE /\ Logged("zellij delete-session", label, FALSE)
            /\ CleanupCatch
            /\ UNCHANGED session
    /\ UNCHANGED <<argv, stdin, sessions, otherVars,
                   dirExists, registered, branch, branchCommits, main, envFile,
                   scaffold, installed, config, cmd, label, existed,
                   cleanupLocals, batchLocals, envLocals, zellij>>

\* cleanupWorktree returns to its caller: the loop of cleanupAllWorktrees,
\* or the end of the command
CleanupReturn ==
    /\ pc = "cl_return"
    /\ IF cmd = "cleanupAll"
       THEN pc' = "ca_loop" /\ wi' = wi + 1 /\ UNCHANGED exitCode
       ELSE ExitOk /\ UNCHANGED wi
    /\ UNCHANGED <<argv, stdin, sessions, otherVars,
                   worldVars, cmd, label, existed, cleanupLocals, worktrees,
                   envLocals, zellij, log>>


(***************************************************************************)
(* cleanupAllWorktrees.                                                    *)
(***************************************************************************)
\* const worktrees = await getAllWorktrees(configDir): [] when the listing
\* fails; if (worktrees.length === 0) return
CleanupAllList ==
    /\ pc = "ca_list"
    /\ \/ \E order \in ListingOrders :
            LET found == GetAllWorktrees(Porcelain(ListedPaths(order)))
            IN  /\ worktrees' = found
                /\ Logged("git worktree list", Undef, TRUE)
                /\ IF found = <<>>
                   THEN ExitOk
                   ELSE pc' = "ca_prompt" /\ UNCHANGED exitCode
       \/ /\ worktrees' = <<>>
          /\ Logged("git worktree list", Undef, FALSE)
          /\ ExitOk
    /\ UNCHANGED <<argv, stdin, sessions, otherVars,
                   worldVars, cmd, label, existed, cleanupLocals, wi, envLocals,
                   zellij>>

\* promptUser("Do you want to clean up all worktrees?")
CleanupAllPrompt ==
    /\ pc = "ca_prompt"
    /\ stdin # NoInput
    /\ stdin' = NoInput
    /\ LET data == stdin IN
        /\ Logged("prompt cleanup all", Undef, PromptUser(data))
        /\ IF PromptUser(data)
           THEN pc' = "ca_loop" /\ UNCHANGED exitCode
           ELSE ExitOk
    /\ UNCHANGED <<argv, sessions, otherVars,
                   worldVars, cmd, label, existed, cleanupLocals, batchLocals,
                   envLocals, zellij>>

\* MoreLabels off by one: the last label of the list is never visited
MoreLabelsButLast(i, list) == i < Len(list)

\* the for-of loop has a label left at position i of list
MoreLabels(i, list) == i <= Len(list)

\* for (const label of worktrees) await cleanupWorktree(label, configDir)
CleanupAllLoop ==
    /\ pc = "ca_loop"
    /\ IF MoreLabels(wi, worktrees)
       THEN /\ label' = worktrees[wi]
            /\ pc' = "cl_exists"
            /\ UNCHANGED exitCode
       ELSE /\ ExitOk
            /\ UNCHANGED label
    /\ UNCHANGED <<argv, stdin, sessions, otherVars,
                   worldVars, cmd, existed, cleanupLocals, batchLocals,
                   envLocals, zellij, log>>

(***************************************************************************)
(* openWorktree.                                                           *)
(***************************************************************************)
\* OpenMissing with the existence check left out
OpenMissingNever(l) == FALSE

\* if (!existsSync(worktreePath)) showError(...)
OpenMissing(l) == ~dirExists[l]

\* entry of openWorktree(label): the existence check
OpenExists ==
    /\ pc = "op_exists"
    /\ existed' = ~OpenMissing(label)
    /\ IF OpenMissing(label)
       THEN ShowError
       ELSE pc' = "op_config" /\ UNCHANGED exitCode
    /\ UNCHANGED <<argv, stdin, sessions, otherVars, worldVars, cmd, label,
                   cleanupLocals, batchLocals, envLocals, zellij, log>>

\* const config = loadConfig(configDir)
OpenLoadConfig ==
    /\ pc = "op_config"
    /\ IF config = "missing"
       THEN ShowError /\ Logged("loadConfig", label, FALSE)
       ELSE pc' = "op_list" /\ Logged("loadConfig", label, TRUE)
                            /\ UNCHANGED exitCode
    /\ UNCHANGED <<argv, stdin, sessions, otherVars, worldVars, cmd, label,
                   existed, cleanupLocals, batchLocals, envLocals, zellij>>

\* `wt-${label}`
SessionName(l) == <<"w", "t", "-">> \o l

\* s.includes(sub)
Includes(s, sub) ==
    \E k \in 0..(Len(s) - Len(sub)) : SubSeq(s, k + 1, k + Len(sub)) = sub

\* the orders in which zellij may list its sessions, running and exited
SessionListings ==
    LET S == {l \in Labels : session[l] # "none"}
    IN  {o \in SeqsOver(S, Cardinality(S)) :
            /\ Len(o) = Cardinality(S)
            /\ \A i, j \in DOMAIN o : i # j => o[i] # o[j]}

\* zellij list-sessions -ns: one session name per line
ListedSessions(order) == [i \in DOMAIN order |-> SessionName(order[i])]

\* result.exitCode === 0 ? result.stdout.toString().trim().split("\n") : []
SessionLines(listed, exitCode0) ==
    IF exitCode0 THEN SplitLines(listed) ELSE <<>>

\* SessionExists with the listing ignored: no session is ever found
SessionExistsNever(lines, name) == FALSE

\* sessions.some((s) => s.includes(sessionName))
SessionExists(lines, name) ==
    \E i \in DOMAIN lines : Includes(lines[i], name)

\* the command line openWorktree spawns
OpenArgv(attach) == IF attach THEN "zellij attach" ELSE "zellij -n -s"

\* what the child may do once started: zellij attach joins (or resurrects)
\* the session of that name; when there is none it fails, or joins the one
\* session the name is a prefix of.  zellij -n -s starts a session when
\* there is none and refuses when the name is taken
ChildOf(attach, l) ==
    IF attach
    THEN IF session[l] # "none" THEN {"attached"}
         ELSE {"refused"} \cup
              {"attached" : m \in {m \in Labels :
                                     /\ session[m] # "none"
                                     /\ StartsWith(m, l)}}
    ELSE IF session[l] = "none" THEN {"session"} ELSE {"refused"}

\* the try of openWorktree up to the await of the child: list the sessions
\* (no throw on a non-zero exit), test for the name, spawn zellij attach or
\* zellij -n layout -s name with cwd worktreePath; a spawn that throws is
\* caught and fatal
OpenAttachOrSpawn ==
    /\ pc = "op_list"
    /\ \E order \in SessionListings, exitCode0 \in BOOLEAN :
        LET lines == SessionLines(ListedSessions(order), exitCode0)
            attach == SessionExists(lines, SessionName(label))
            listing == Entry("zellij list-sessions", label, exitCode0)
        IN  /\ sessions' = lines
            /\ \/ /\ dirExists[label]
                  /\ zellij' \in ChildOf(attach, label)
                  /\ session' =
                        IF zellij' \in {"session", "attached"}
                           /\ (attach => session[label] # "none")
                        THEN [session EXCEPT ![label] = "running"]
                        ELSE session
                  /\ log' = log \o <<listing,
                                     Entry(OpenArgv(attach), label, TRUE)>>
                  /\ pc' = "op_session"
                  /\ UNCHANGED exitCode
               \/ /\ log' = log \o <<listing,
                                     Entry(OpenArgv(attach), label, FALSE)>>
                  /\ ShowError
                  /\ UNCHANGED <<session, zellij>>
    /\ UNCHANGED <<argv, stdin, otherVars, dirExists, registered, branch,
                   branchCommits, main, envFile, scaffold, installed, config,
                   cmd, label, existed, cleanupLocals, batchLocals, envLocals>>

\* OpenClosed followed by the cleanup prompt of createWorktree
OpenClosedPrompts == pc' = "cr_prompt" /\ UNCHANGED exitCode

\* console.log("Closed worktree session"): openWorktree returns and the
\* command ends
OpenClosed == ExitOk

\* await zellijProc.exited in openWorktree: the operator quits or detaches;
\* a child that was refused exits at once
OpenSessionExit ==
    /\ pc = "op_session"
    /\ \/ /\ zellij \in {"session", "attached"}
          /\ session[label] # "none"
          /\ \E after \in {"running", "exited"} :
                session' = [session EXCEPT ![label] = after]
       \/ /\ zellij = "refused" \/ session[label] = "none"
          /\ UNCHANGED session
    /\ zellij' = "none"
    /\ OpenClosed
    /\ UNCHANGED <<argv, stdin, sessions, otherVars, dirExists, registered,
                   branch, branchCommits, main, envFile, scaffold, installed,
                   config, cmd, label, existed, cleanupLocals, batchLocals,
                   envLocals, log>>

(***************************************************************************)
(* findAvailablePort on its own, in any of the port worlds.                *)
(***************************************************************************)
\* the ports in use when findAvailablePort is called: any of the first of
\* the range, or all of the range
PortWorlds ==
    (SUBSET (PortLow..(PortLow + MaxBusy))) \cup {PortLow..(PortHigh - 1)}

\* a repository in which nothing was created, and any of the port worlds
PortInit ==
    /\ dirExists = [l \in Labels |-> FALSE]
    /\ registered = [l \in Labels |-> FALSE]
    /\ branch = [l \in Labels |-> FALSE]
    /\ branchCommits = [l \in Labels |-> <<>>]
    /\ session = [l \in Labels |-> "none"]
    /\ envFile = [l \in Labels |-> NoFile]
    /\ scaffold = [l \in Labels |-> FALSE]
    /\ installed = [l \in Labels |-> FALSE]
    /\ main = <<>>
    /\ config = "env"
    /\ IdleProcess
    /\ inUse \in PortWorlds
    /\ IdleAllocator
    /\ NoFilter
    /\ IdlePair
    /\ Initialized
    /\ NoParked

PortNext ==
    \/ FindStart
    \/ FindProbe
    \/ FindThrow

PortSpec == PortInit /\ [][PortNext]_vars

(***************************************************************************)
(* findAvailablePort when a connection attempt may get no answer.  The     *)
(* promise of isPortAvailable has two resolutions, the connect callback    *)
(* and the error event, and no timer: on a port that neither accepts nor   *)
(* refuses, the loop waits until the operating system gives the attempt    *)
(* up and reports an error.  The event loop runs every continuation that   *)
(* is ready; nothing in wt makes the operating system give up.             *)
(***************************************************************************)
\* the operating system gives the connection attempt up: the error event
\* fires, isPortAvailable resolves true and the port is returned
ConnectGivenUp ==
    /\ fpc = "scan"
    /\ port < PortHigh
    /\ ~Answered(port)
    /\ probed' = Append(probed, port)
    /\ returned' = port
    /\ fpc' = "returned"
    /\ UNCHANGED <<wtVars, inUse, filtered, port>>

\* the first ports of the range: each has a listener, or refuses, or
\* gives no answer
ProbeInit ==
    /\ dirExists = [l \in Labels |-> FALSE]
    /\ registered = [l \in Labels |-> FALSE]
    /\ branch = [l \in Labels |-> FALSE]
    /\ branchCommits = [l \in Labels |-> <<>>]
    /\ session = [l \in Labels |-> "none"]
    /\ envFile = [l \in Labels |-> NoFile]
    /\ scaffold = [l \in Labels |-> FALSE]
    /\ installed = [l \in Labels |-> FALSE]
    /\ main = <<>>
    /\ config = "env"
    /\ IdleProcess
    /\ inUse \in (SUBSET (PortLow..(PortLow + MaxBusy))) \cup {PortLow..(PortHigh - 1)}
    /\ filtered \in SUBSET ((PortLow..(PortLow + MaxBusy)) \ inUse)
    /\ port = PortLow
    /\ probed = <<>>
    /\ returned = 0
    /\ fpc = "idle"
    /\ IdlePair
    /\ Initialized
    /\ NoParked

ProbeNext ==
    \/ FindStart
    \/ FindProbe
    \/ FindThrow
    \/ ConnectGivenUp

\* the continuations of findAvailablePort run when they are ready
ProbeFair ==
    /\ WF_vars(FindStart)
    /\ WF_vars(FindProbe)
    /\ WF_vars(FindThrow)

ProbeSpec == ProbeInit /\ [][ProbeNext]_vars /\ ProbeFair

(***************************************************************************)
(* findAvailablePorts, the allocator of the variant that provisions an     *)
(* admin port and a webhook port: the scan of [PortLow, PortHigh) for two  *)
(* adjacent free ports, one probe per step.                                *)
(***************************************************************************)
\* everything but the state of the pair allocator
nonPairVars ==
    <<worldVars, pc, cmd, label, existed, cleanupLocals, batchLocals,
      envLocals, zellij, exitCode, log, argv, stdin, sessions, portVars,
      initVars, parked>>

\* BothAvailable with one free port of the two being enough
BothAvailableEither(admin, webhook) == admin \/ webhook

\* if (adminAvailable && webhookAvailable)
BothAvailable(admin, webhook) == admin /\ webhook

\* findAvailablePorts is called: let port = 3002
PairStart ==
    /\ ppc = "idle"
    /\ ppc' = "webhook"
    /\ pairPort' = PortLow
    /\ UNCHANGED <<nonPairVars, webhookAvailable, adminPort, webhookPort,
                   pairProbed>>

\* const webhookAvailable = await isPortAvailable(port)
PairProbeWebhook ==
    /\ ppc = "webhook"
    /\ pairPort < PortHigh
    /\ webhookAvailable' = IsPortAvailable(pairPort)
    /\ pairProbed' = Append(pairProbed, pairPort)
    /\ ppc' = "admin"
    /\ UNCHANGED <<nonPairVars, pairPort, adminPort, webhookPort>>

\* const adminAvailable = await isPortAvailable(port + 1); return
\* { adminPort: port + 1, webhookPort: port } when both are free, else port++
PairProbeAdmin ==
    /\ ppc = "admin"
    /\ pairProbed' = Append(pairProbed, pairPort + 1)
    /\ LET adminAvailable == IsPortAvailable(pairPort + 1)
       IN  IF BothAvailable(adminAvailable, webhookAvailable)
           THEN /\ adminPort' = pairPort + 1
                /\ webhookPort' = pairPort
                /\ ppc' = "returned"
                /\ UNCHANGED pairPort
           ELSE /\ pairPort' = NextPort(pairPort)
                /\ ppc' = "webhook"
                /\ UNCHANGED <<adminPort, webhookPort>>
    /\ UNCHANGED <<nonPairVars, webhookAvailable>>

\* the loop ends: throw new Error("No adjacent ports available in range
\* 3002-4000")
PairThrow ==
    /\ ppc = "webhook"
    /\ ~(pairPort < PortHigh)
    /\ ppc' = "thrown"
    /\ UNCHANGED <<nonPairVars, pairPort, webhookAvailable, adminPort,
                   webhookPort, pairProbed>>

\* the ports in use when findAvailablePorts is called: any of the first of
\* the range; all of the range and the port after it; all but one adjacent
\* pair; all but the last port of the range, with the port after it free or
\* in use
PairWorlds ==
    (SUBSET (PortLow..(PortLow + MaxBusy)))
        \cup {PortLow..PortHigh,
              (PortLow..PortHigh) \ {PortLow + 4, PortLow + 5},
              PortLow..(PortHigh - 2),
              (PortLow..PortHigh) \ {PortHigh - 1}}

\* a repository in which nothing was created, and any of the pair worlds
PairInit ==
    /\ dirExists = [l \in Labels |-> FALSE]
    /\ registered = [l \in Labels |-> FALSE]
    /\ branch = [l \in Labels |-> FALSE]
    /\ branchCommits = [l \in Labels |-> <<>>]
    /\ session = [l \in Labels |-> "none"]
    /\ envFile = [l \in Labels |-> NoFile]
    /\ scaffold = [l \in Labels |-> FALSE]
    /\ installed = [l \in Labels |-> FALSE]
    /\ main = <<>>
    /\ config = "env"
    /\ IdleProcess
    /\ inUse \in PairWorlds
    /\ IdleAllocator
    /\ NoFilter
    /\ IdlePair
    /\ Initialized
    /\ NoParked

PairNext ==
    \/ PairStart
    \/ PairProbeWebhook
    \/ PairProbeAdmin
    \/ PairThrow

PairSpec == PairInit /\ [][PairNext]_vars

(***************************************************************************)
(* wt init.  The action has no await: it is one step.  .gitignore is a     *)
(* sequence of characters, the worktrees line being one token.             *)
(***************************************************************************)
\* everything but the files wt init writes and the count of its runs
nonInitVars ==
    <<dirExists, registered, branch, branchCommits, main, session, envFile,
      scaffold, installed, pc, cmd, label, existed, cleanupLocals, batchLocals,
      envLocals, zellij, exitCode, log, argv, stdin, sessions, portVars,
      pairVars, parked>>

RECURSIVE Split(_)
\* gitignoreContent.split("\n"): the pieces between the newlines, the empty
\* string giving the one piece ""
Split(content) ==
    IF \E i \in DOMAIN content : content[i] = "\n"
    THEN LET i == CHOOSE k \in DOMAIN content :
                    /\ content[k] = "\n"
                    /\ \A j \in 1..(k - 1) : content[j] # "\n"
         IN  <<SubSeq(content, 1, i - 1)>>
                \o Split(SubSeq(content, i + 1, Len(content)))
    ELSE <<content>>

\* String.prototype.trimEnd
TrimEnd(s) == Reverse(TrimStart(Reverse(s)))

\* HasPattern with the test always failing: the line is always appended
HasPatternNever(content) == FALSE

\* patterns.some((line) => line.trim() === worktreesPattern)
HasPattern(content) ==
    \E i \in DOMAIN Split(content) :
        Trim(Split(content)[i]) = <<WorktreesPattern>>

\* the content of .gitignore after the .gitignore block of the action
GitignoreAfter(file) ==
    IF file # NoFile
    THEN IF ~HasPattern(file)
         THEN TrimEnd(file) \o <<"\n", WorktreesPattern, "\n">>
         ELSE file
    ELSE <<WorktreesPattern, "\n">>

\* if (!existsSync(layoutFile)) Bun.write(layoutFile, ...)
LayoutAfter(file) == IF file = "absent" THEN "template" ELSE file

\* if (!existsSync(configFile)) Bun.write(configFile, ...): the default
\* configuration defines an environment function
ConfigAfter(c) == IF c = "missing" THEN "env" ELSE c

\* wt init
InitCommand ==
    /\ ipc < MaxInits
    /\ ipc' = ipc + 1
    /\ layoutFile' = LayoutAfter(layoutFile)
    /\ config' = ConfigAfter(config)
    /\ gitignore' = GitignoreAfter(gitignore)
    /\ UNCHANGED nonInitVars

\* the operator changes the layout template to taste
OperatorEditsLayout ==
    /\ layoutFile = "template"
    /\ layoutFile' = "edited"
    /\ UNCHANGED <<nonInitVars, config, gitignore, ipc>>

\* the characters of the .gitignore files wt init may find
GitignoreChars == {"x", " ", "\n", WorktreesPattern}

\* a repository in which wt was never used: any .gitignore or none, the
\* layout and the configuration absent or put there by hand
InitInit ==
    /\ dirExists = [l \in Labels |-> FALSE]
    /\ registered = [l \in Labels |-> FALSE]
    /\ branch = [l \in Labels |-> FALSE]
    /\ branchCommits = [l \in Labels |-> <<>>]
    /\ session = [l \in Labels |-> "none"]
    /\ envFile = [l \in Labels |-> NoFile]
    /\ scaffold = [l \in Labels |-> FALSE]
    /\ installed = [l \in Labels |-> FALSE]
    /\ main = <<>>
    /\ config \in Configs
    /\ IdleProcess
    /\ inUse = {}
    /\ IdleAllocator
    /\ NoFilter
    /\ IdlePair
    /\ NoParked
    /\ layoutFile \in {"absent", "edited"}
    /\ gitignore \in SeqsOver(GitignoreChars, MaxChars) \cup {NoFile}
    /\ ipc = 0

InitNext ==
    \/ InitCommand
    \/ OperatorEditsLayout

InitSpec == InitInit /\ [][InitNext]_vars

(***************************************************************************)
(* The operator, acting on the repository beside the wt process: inside    *)
(* the session wt waits for, or while it waits at a prompt.                *)
(***************************************************************************)
\* the operator answers the prompt the process waits at: the line arrives
\* as the data event of process.stdin
OperatorTypes ==
    /\ pc \in {"cr_prompt", "cl_prompt", "ca_prompt"}
    /\ stdin = NoInput
    /\ stdin' \in Answers
    /\ UNCHANGED <<argv, sessions, otherVars, worldVars, pc, cmd, label,
                   existed, cleanupLocals, batchLocals, envLocals, zellij,
                   exitCode, log>>

\* a commit on the worktree's branch, made inside the session
OperatorCommit ==
    /\ pc = "cr_session"
    /\ zellij = "session"
    /\ branch[label]
    /\ Len(branchCommits[label]) < MaxCommits
    /\ branchCommits' =
          [branchCommits EXCEPT
              ![label] = Append(@, Commit(label, Len(@) + 1))]
    /\ UNCHANGED <<argv, stdin, sessions, otherVars,
                   dirExists, registered, branch, main, session, envFile,
                   scaffold, installed, config, pc, cmd, label, existed,
                   cleanupLocals, batchLocals, envLocals, zellij, exitCode, log>>

\* git merge <label> on main from another terminal, while wt waits at the
\* cherry-pick prompt: main..<label> becomes empty
OperatorMerge ==
    /\ pc = "cl_prompt"
    /\ branchCommits[label] # <<>>
    /\ main' = main \o branchCommits[label]
    /\ branchCommits' = [branchCommits EXCEPT ![label] = <<>>]
    /\ UNCHANGED <<argv, stdin, sessions, otherVars,
                   dirExists, registered, branch, session, envFile, scaffold,
                   installed, config, pc, cmd, label, existed, cleanupLocals,
                   batchLocals, envLocals, zellij, exitCode, log>>

(***************************************************************************)
(* The specification.                                                      *)
(***************************************************************************)
Next ==
    \/ NewCommand
    \/ CleanupCommand
    \/ CleanupAllCommand
    \/ OpenCommand
    \/ CleanupValidate
    \/ OpenValidate
    \/ OpenExists
    \/ OpenLoadConfig
    \/ OpenAttachOrSpawn
    \/ OpenSessionExit
    \/ CreateValidate
    \/ CreateExists
    \/ CreateAdd
    \/ CreateCopy
    \/ CreateInstall
    \/ CreateLoadConfig
    \/ CreateEnvironment
    \/ EnvironmentFind
    \/ EnvironmentProbe
    \/ EnvironmentPort
    \/ EnvironmentExhausted
    \/ EnvironmentThrows
    \/ CreateWriteEnv
    \/ CreateSpawn
    \/ CreateSessionExit
    \/ CreatePrompt
    \/ CleanupExists
    \/ CleanupHasUnmerged
    \/ CleanupPrompt
    \/ CleanupCheckout
    \/ CleanupRevList
    \/ CleanupCherryPick
    \/ CleanupRemove
    \/ CleanupDeleteBranch
    \/ CleanupDeleteSession
    \/ CleanupReturn
    \/ CleanupAllList
    \/ CleanupAllPrompt
    \/ CleanupAllLoop
    \/ OperatorTypes
    \/ OperatorCommit
    \/ OperatorMerge

Spec == Init /\ [][Next]_vars

(***************************************************************************)
(* Several invocations.  wt keeps nothing between invocations but what it  *)
(* left in the repository: the next invocation starts with fresh locals.   *)
(***************************************************************************)
\* the registers of a wt process
Registers ==
    [pc |-> pc, cmd |-> cmd, label |-> label, existed |-> existed,
     hasUnmerged |-> hasUnmerged, commits |-> commits, ci |-> ci,
     worktrees |-> worktrees, wi |-> wi, envVars |-> envVars,
     envKeys |-> envKeys, zellij |-> zellij, exitCode |-> exitCode,
     log |-> log, argv |-> argv, stdin |-> stdin, sessions |-> sessions,
     port |-> port, probed |-> probed, returned |-> returned, fpc |-> fpc]

\* the registers of a wt process that has not started
IdleRegisters ==
    [pc |-> "idle", cmd |-> "none", label |-> Undef, existed |-> FALSE,
     hasUnmerged |-> FALSE, commits |-> <<>>, ci |-> 1,
     worktrees |-> <<>>, wi |-> 1, envVars |-> <<>>,
     envKeys |-> <<>>, zellij |-> "none", exitCode |-> 0,
     log |-> <<>>, argv |-> Undef, stdin |-> NoInput, sessions |-> <<>>,
     port |-> PortLow, probed |-> <<>>, returned |-> 0, fpc |-> "idle"]

\* the process takes the registers r
Load(r) ==
    /\ pc' = r.pc
    /\ cmd' = r.cmd
    /\ label' = r.label
    /\ existed' = r.existed
    /\ hasUnmerged' = r.hasUnmerged
    /\ commits' = r.commits
    /\ ci' = r.ci
    /\ worktrees' = r.worktrees
    /\ wi' = r.wi
    /\ envVars' = r.envVars
    /\ envKeys' = r.envKeys
    /\ zellij' = r.zellij
    /\ exitCode' = r.exitCode
    /\ log' = r.log
    /\ argv' = r.argv
    /\ stdin' = r.stdin
    /\ sessions' = r.sessions
    /\ port' = r.port
    /\ probed' = r.probed
    /\ returned' = r.returned
    /\ fpc' = r.fpc

\* the process has ended and the operator is back at the shell: the next
\* invocation is a new process
Restart ==
    /\ pc = "exited"
    /\ Load(IdleRegisters)
    /\ UNCHANGED <<worldVars, inUse, filtered, pairVars, initVars, parked>>

\* the process is killed (Ctrl-C, a closed terminal) while it waits for a
\* command or for input: nothing it did is undone
Interrupt ==
    /\ pc \notin {"idle", "exited"}
    /\ pc' = "exited"
    /\ exitCode' = 130
    /\ UNCHANGED <<worldVars, cmd, label, existed, cleanupLocals, batchLocals,
                   envLocals, zellij, log, argv, stdin, sessions, otherVars>>

\* the ports the environment file of l names: no allocation is above
\* PortLow by more than the number of ports in use
PortsOf(l) ==
    IF envFile[l] = NoFile THEN {}
    ELSE {p \in PortLow..(PortLow + Cardinality(inUse)) :
             \E i \in DOMAIN envFile[l] :
                 i % 4 = 3 /\ envFile[l][i] = ToString(p)}

\* inside a running session the operator starts the server of the worktree,
\* which listens on a port of its environment file
ServerListens ==
    \E l \in Labels :
        /\ Cardinality(inUse) < MaxServers
        /\ dirExists[l]
        /\ session[l] = "running"
        /\ \E p \in PortsOf(l) \ inUse : inUse' = inUse \cup {p}
        /\ UNCHANGED <<wtVars, filtered, port, probed, returned, fpc>>

\* wt new <label>
LifeNew == \E l \in Labels : Launch("new", l, l, "cr_validate")

\* wt cleanup <label>
LifeCleanup == \E l \in Labels : Launch("cleanup", l, l, "cli_validate")

\* a repository in which nothing was created, a configuration with an
\* environment function, and no port in use
LifeInit ==
    /\ dirExists = [l \in Labels |-> FALSE]
    /\ registered = [l \in Labels |-> FALSE]
    /\ branch = [l \in Labels |-> FALSE]
    /\ branchCommits = [l \in Labels |-> <<>>]
    /\ session = [l \in Labels |-> "none"]
    /\ envFile = [l \in Labels |-> NoFile]
    /\ scaffold = [l \in Labels |-> FALSE]
    /\ installed = [l \in Labels |-> FALSE]
    /\ main = <<>>
    /\ config = "env"
    /\ IdleProcess
    /\ inUse = {}
    /\ IdleAllocator
    /\ NoFilter
    /\ IdlePair
    /\ Initialized
    /\ NoParked

\* invocations of wt new and wt cleanup, one after the other
LifeNext ==
    \/ LifeNew
    \/ LifeCleanup
    \/ CreateValidate
    \/ CreateExists
    \/ CreateAdd
    \/ CreateCopy
    \/ CreateInstall
    \/ CreateLoadConfig
    \/ CreateEnvironment
    \/ EnvironmentFind
    \/ EnvironmentProbe
    \/ EnvironmentPort
    \/ CreateWriteEnv
    \/ CreateSpawn
    \/ CreateSessionExit
    \/ CreatePrompt
    \/ CleanupValidate
    \/ CleanupExists
    \/ CleanupHasUnmerged
    \/ CleanupRemove
    \/ CleanupDeleteBranch
    \/ CleanupDeleteSession
    \/ CleanupReturn
    \/ OperatorTypes
    \/ ServerListens
    \/ Interrupt
    \/ Restart

LifeSpec == LifeInit /\ [][LifeNext]_vars

(***************************************************************************)
(* Two wt processes at once.  The processes run the same code; the one     *)
(* that is not stepping is parked with its registers, and a switch makes   *)
(* it the one that steps.                                                  *)
(***************************************************************************)
\* the other process gets the processor
Switch ==
    /\ parked # <<>>
    /\ parked' = <<Registers>>
    /\ Load(parked[1])
    /\ UNCHANGED <<worldVars, inUse, filtered, pairVars, initVars>>

\* the label the two operators type
RaceLabel == <<"a">>

\* wt new a, in either terminal
RaceNew == Launch("new", RaceLabel, RaceLabel, "cr_validate")

\* a repository in which nothing was created, and two processes that have
\* not started
RaceInit ==
    /\ dirExists = [l \in Labels |-> FALSE]
    /\ registered = [l \in Labels |-> FALSE]
    /\ branch = [l \in Labels |-> FALSE]
    /\ branchCommits = [l \in Labels |-> <<>>]
    /\ session = [l \in Labels |-> "none"]
    /\ envFile = [l \in Labels |-> NoFile]
    /\ scaffold = [l \in Labels |-> FALSE]
    /\ installed = [l \in Labels |-> FALSE]
    /\ main = <<>>
    /\ config = "env"
    /\ IdleProcess
    /\ inUse = {}
    /\ IdleAllocator
    /\ NoFilter
    /\ IdlePair
    /\ Initialized
    /\ parked = <<IdleRegisters>>

\* two invocations of wt new for the same label, interleaved at the awaits
RaceNext ==
    \/ RaceNew
    \/ CreateValidate
    \/ CreateExists
    \/ CreateAdd
    \/ CreateCopy
    \/ CreateInstall
    \/ CreateLoadConfig
    \/ CreateEnvironment
    \/ EnvironmentFind
    \/ EnvironmentProbe
    \/ EnvironmentPort
    \/ CreateWriteEnv
    \/ CreateSpawn
    \/ CreateSessionExit
    \/ CreatePrompt
    \/ CleanupExists
    \/ CleanupHasUnmerged
    \/ CleanupRemove
    \/ CleanupDeleteBranch
    \/ CleanupDeleteSession
    \/ CleanupReturn
    \/ OperatorTypes
    \/ Switch

RaceSpec == RaceInit /\ [][RaceNext]_vars


(***************************************************************************)
(* Vocabulary of the properties.                                           *)
(***************************************************************************)
Last(s) == s[Len(s)]

Range(s) == {s[i] : i \in DOMAIN s}

\* index of the latest call of cleanupWorktree(l) in the log, 0 if none
CallIndex(l) ==
    LET S == {i \in DOMAIN log :
                 log[i].op = "cleanupWorktree" /\ log[i].arg = l}
    IN  IF S = {} THEN 0 ELSE CHOOSE i \in S : \A j \in S : j <= i

\* what the latest cleanupWorktree(l) has issued so far
SinceCall(l) == SubSeq(log, CallIndex(l) + 1, Len(log))

\* the entries of seq whose op is in ops
OpsOf(seq, ops) == SelectSeq(seq, LAMBDA e : e.op \in ops)

\* the arguments of the entries of seq
Args(seq) == [i \in DOMAIN seq |-> seq[i].arg]

\* the entries of seq that succeeded
Succeeded(seq) == SelectSeq(seq, LAMBDA e : e.ok)

Destructive ==
    {"git worktree remove", "git branch -D", "zellij delete-session"}

CreationOps == {"git worktree add", "cp -r local", "bun install"}

Prompts == {"prompt cleanup", "prompt cherry-pick", "prompt cleanup all"}

\* the labels cleanupWorktree was called with, in call order
Calls == Args(OpsOf(log, {"cleanupWorktree"}))

\* the cleanup in hand was asked to cherry-pick and the operator agreed
AgreedToPick ==
    LET asked == OpsOf(SinceCall(label), {"prompt cherry-pick"})
    IN  asked # <<>> /\ Last(asked).ok

InMain(c) == c \in Range(main)

(***************************************************************************)
(* C1.  For a branch with commits that are not on main, cleanup removes    *)
(* the worktree only after the reconcile prompt was asked and either       *)
(* declined or followed by the cherry-pick of every unmerged commit;       *)
(* unmerged history is never discarded without the prompt, also when the   *)
(* unmerged-commit query fails.                                            *)
(***************************************************************************)
C1_NoSilentDiscard ==
    (pc = "cl_branch" /\ branchCommits[label] # <<>>) =>
        LET seg == SinceCall(label)
            asked == OpsOf(seg, {"prompt cherry-pick"})
            picked == Args(Succeeded(OpsOf(seg, {"git cherry-pick"})))
        IN  /\ Len(asked) = 1
            /\ ~asked[1].ok \/ picked = branchCommits[label]

(***************************************************************************)
(* C2.  When the cherry-pick of a commit conflicts, main holds exactly the *)
(* commits of the branch older than it, the process has ended with status  *)
(* 1, and no worktree removal, branch deletion or session deletion was     *)
(* issued: worktree, registration and branch are still there.              *)
(***************************************************************************)
C2_ConflictStopsCleanup ==
    (log # <<>> /\ Last(log).op = "git cherry-pick" /\ ~Last(log).ok) =>
        LET bc == branchCommits[label]
        IN  /\ Last(log).arg \in Range(bc)
            /\ \A i \in DOMAIN bc :
                  InMain(bc[i]) <=>
                      \E k \in DOMAIN bc : bc[k] = Last(log).arg /\ i < k
            /\ pc = "exited"
            /\ exitCode = 1
            /\ dirExists[label] /\ registered[label] /\ branch[label]
            /\ OpsOf(SinceCall(label), Destructive) = <<>>

\* C1, C2, C3 on the branch, C2 conflicts: main holds C1 alone
C2_Witness ==
    /\ pc = "exited"
    /\ log # <<>>
    /\ label \in Labels
    /\ Len(branchCommits[label]) = 3
    /\ Last(log) = Entry("git cherry-pick", branchCommits[label][2], FALSE)
    /\ main = <<branchCommits[label][1]>>

(***************************************************************************)
(* C3.  Reconciliation checks out main, lists the unique commits, and      *)
(* cherry-picks them oldest first: at every moment the cherry-picks issued *)
(* are a prefix of the branch's commits in chronological order, none is an *)
(* empty line, and when the loop is over every commit was applied.         *)
(***************************************************************************)
C3_OldestFirst ==
    (pc \in {"cl_pick", "cl_remove", "exited"} /\ label \in Labels
        /\ Calls # <<>> /\ AgreedToPick /\ branch[label]) =>
        LET seg == SinceCall(label)
            picks == Args(OpsOf(seg, {"git cherry-pick"}))
            done == Args(Succeeded(OpsOf(seg, {"git cherry-pick"})))
            bc == branchCommits[label]
        IN  /\ Len(picks) <= Len(bc)
            /\ picks = SubSeq(bc, 1, Len(picks))
            /\ \A i \in DOMAIN picks : picks[i] # EmptyLine
            /\ picks # <<>> =>
                  \E i, j \in DOMAIN seg :
                      /\ i < j
                      /\ seg[i] = Entry("git checkout main", label, TRUE)
                      /\ seg[j] = Entry("git rev-list main..", label, TRUE)
                      /\ \A k \in DOMAIN seg :
                            seg[k].op = "git cherry-pick" => j < k
            /\ pc = "cl_remove" =>
                  /\ done = bc
                  /\ SelectSeq(main, LAMBDA c : c \in Range(bc)) = bc

\* three commits were applied, in chronological order
C3_Witness ==
    /\ pc = "cl_remove"
    /\ AgreedToPick
    /\ Len(branchCommits[label]) = 3
    /\ Args(OpsOf(SinceCall(label), {"git cherry-pick"})) = branchCommits[label]
    /\ main = branchCommits[label]


(***************************************************************************)
(* C4.  cleanup(label) on a label whose worktree directory does not exist  *)
(* is a no-op: the process ends with status 0 having asked no prompt and   *)
(* issued no command, in particular no worktree removal, branch deletion   *)
(* or session deletion.                                                    *)
(***************************************************************************)
C4_AbsentIsNoOp ==
    (/\ cmd = "cleanup"
     /\ label \in Labels
     /\ pc \notin {"idle", "cli_validate", "cl_exists"}
     /\ ~dirExists[label]
     /\ Succeeded(OpsOf(log, {"git worktree remove"})) = <<>>) =>
        /\ pc \in {"cl_return", "exited"}
        /\ exitCode = 0
        /\ log = <<Entry("cleanupWorktree", label, TRUE)>>

\* a cleanup of an absent directory has ended
C4_Witness ==
    /\ cmd = "cleanup"
    /\ pc = "exited"
    /\ exitCode = 0
    /\ label \in Labels
    /\ ~dirExists[label]
    /\ branch[label]
    /\ log = <<Entry("cleanupWorktree", label, TRUE)>>

(***************************************************************************)
(* C5.  The teardown is ordered: git branch -D is issued only right after  *)
(* a successful git worktree remove of the same label, and zellij          *)
(* delete-session only right after a successful git branch -D.  A cleanup  *)
(* of an existing worktree that returns normally has done exactly these    *)
(* three, in this order, and the directory, the registration, the branch   *)
(* and the session of the label are gone.                                  *)
(***************************************************************************)
C5_OrderedTeardown ==
    /\ \A j \in DOMAIN log :
          log[j].op = "git branch -D" =>
              /\ j > 1
              /\ log[j - 1] = Entry("git worktree remove", log[j].arg, TRUE)
    /\ \A j \in DOMAIN log :
          log[j].op = "zellij delete-session" =>
              /\ j > 1
              /\ log[j - 1] = Entry("git branch -D", log[j].arg, TRUE)
    /\ (pc = "cl_return" /\ SinceCall(label) # <<>>) =>
          /\ OpsOf(SinceCall(label), Destructive) =
                <<Entry("git worktree remove", label, TRUE),
                  Entry("git branch -D", label, TRUE),
                  Entry("zellij delete-session", label, TRUE)>>
          /\ ~dirExists[label]
          /\ ~registered[label]
          /\ ~branch[label]
          /\ session[label] = "none"

\* a cleanup of an existing worktree has returned normally
C5_Witness ==
    /\ pc = "cl_return"
    /\ Len(OpsOf(SinceCall(label), Destructive)) = 3
    /\ ~dirExists[label]
    /\ ~branch[label]
    /\ session[label] = "none"

(***************************************************************************)
(* C6.  A failed session deletion is not fatal: the process does not end   *)
(* with a non-zero status because zellij delete-session failed.            *)
(***************************************************************************)
C6_SessionDeletionIsSoft ==
    (log # <<>> /\ Last(log).op = "zellij delete-session" /\ ~Last(log).ok) =>
        exitCode = 0

(***************************************************************************)
(* C7.  cleanupAll with no worktree listed asks nothing and cleans         *)
(* nothing.  With N worktrees listed and the batch prompt confirmed, the   *)
(* calls of cleanupWorktree are, at every moment, the first labels of the  *)
(* listing, each once and in listing order; they are all N when the        *)
(* process ends with status 0.                                             *)
(***************************************************************************)
BatchConfirmed ==
    OpsOf(log, {"prompt cleanup all"}) =
        <<Entry("prompt cleanup all", Undef, TRUE)>>

C7_OncePerLabelInOrder ==
    cmd = "cleanupAll" =>
        /\ (pc \notin {"idle", "ca_list"} /\ worktrees = <<>>) =>
              /\ pc = "exited"
              /\ exitCode = 0
              /\ OpsOf(log, Prompts) = <<>>
              /\ Calls = <<>>
        /\ pc = "ca_prompt" =>
              /\ Range(worktrees) = {l \in Labels : registered[l]}
              /\ Len(worktrees) = Cardinality(Range(worktrees))
        /\ Len(OpsOf(log, {"prompt cleanup all"})) <= 1
        /\ Calls # <<>> => BatchConfirmed
        /\ Len(Calls) <= Len(worktrees)
        /\ Calls = SubSeq(worktrees, 1, Len(Calls))
        /\ (pc = "exited" /\ exitCode = 0 /\ BatchConfirmed) =>
              Calls = worktrees

\* two worktrees listed, one confirmation, two cleanups
C7_Witness ==
    /\ cmd = "cleanupAll"
    /\ pc = "exited"
    /\ exitCode = 0
    /\ Len(worktrees) = 2
    /\ BatchConfirmed
    /\ Calls = worktrees

\* the claim as first stated: a confirmed batch calls cleanupWorktree
\* exactly N times, whatever happens in the calls
C7_ExactlyNCalls ==
    (cmd = "cleanupAll" /\ pc = "exited") =>
        IF worktrees = <<>>
        THEN OpsOf(log, Prompts) = <<>> /\ Calls = <<>>
        ELSE BatchConfirmed => Calls = worktrees

(***************************************************************************)
(* C8.  cleanupAll stops at the first cleanup that fails: once a command   *)
(* of cleanupWorktree's try has failed, the process has ended with status  *)
(* 1, nothing was issued after the failure, and no label listed after the  *)
(* failing one has been touched.                                           *)
(***************************************************************************)
FatalOps ==
    {"git checkout main", "git rev-list main..", "git cherry-pick",
     "git worktree remove", "git branch -D", "zellij delete-session"}

C8_BatchStopsAtFirstFailure ==
    (cmd = "cleanupAll" /\ \E i \in DOMAIN log :
                              log[i].op \in FatalOps /\ ~log[i].ok) =>
        /\ pc = "exited"
        /\ exitCode = 1
        /\ Last(log).op \in FatalOps /\ ~Last(log).ok
        /\ \A i \in 1..(Len(log) - 1) : log[i].op \in FatalOps => log[i].ok
        /\ Calls = SubSeq(worktrees, 1, wi)
        /\ \A i \in DOMAIN worktrees :
              i > wi => \A j \in DOMAIN log : log[j].arg # worktrees[i]

\* the first of two cleanups failed and the second worktree is still there
C8_Witness ==
    /\ cmd = "cleanupAll"
    /\ pc = "exited"
    /\ exitCode = 1
    /\ wi = 1
    /\ Len(worktrees) = 2
    /\ dirExists[worktrees[2]]
    /\ branch[worktrees[2]]

\* the claim as first stated: every listed label is cleaned up, also after
\* the cleanup of an earlier label reported an error
C8_ContinuesAfterError ==
    (cmd = "cleanupAll" /\ pc = "exited" /\ BatchConfirmed) =>
        \A l \in Range(worktrees) : l \in Range(Calls)

(***************************************************************************)
(* C9.  create on a label whose directory exists never issues git worktree *)
(* add, the scaffold copy or bun install; it still reaches the session     *)
(* launch, and when the configuration defines an environment function it   *)
(* has called it and rewritten the environment file by then; when the      *)
(* configuration defines none it writes no file.                           *)
(***************************************************************************)
\* createWorktree is past its existence test and has not entered cleanup
InCreate ==
    /\ cmd = "new"
    /\ pc \notin {"idle", "cr_validate", "cr_exists"}
    /\ Calls = <<>>

Wrote == Entry("writeFileSync", label, TRUE) \in Range(log)

C9_ReentrySkipsCreation ==
    (InCreate /\ existed) =>
        /\ OpsOf(log, CreationOps) = <<>>
        /\ pc \in {"cr_session", "cr_prompt"} =>
              /\ Entry("zellij -n -s", label, TRUE) \in Range(log)
              /\ HasEnvironment(config) =>
                    /\ Entry("environment", label, TRUE) \in Range(log)
                    /\ Wrote
                    /\ envFile[label] = EnvContent(envVars)
              /\ ~HasEnvironment(config) => ~Wrote

\* a re-entered create waits on its session with a fresh environment file
C9_Witness ==
    /\ InCreate
    /\ existed
    /\ pc = "cr_session"
    /\ zellij = "session"
    /\ HasEnvironment(config)
    /\ envVars # <<>>
    /\ envFile[label] = EnvContent(envVars)

\* the claim as first stated: every re-entered create that launches the
\* session has rewritten the environment file
C9_ReentryAlwaysProvisions ==
    (InCreate /\ existed) =>
        /\ OpsOf(log, CreationOps) = <<>>
        /\ pc \in {"cr_session", "cr_prompt"} =>
              /\ Entry("zellij -n -s", label, TRUE) \in Range(log)
              /\ Wrote

(***************************************************************************)
(* C10.  When create launches the session under a configuration that       *)
(* defines an environment function, the environment file was written       *)
(* before the launch and holds exactly one KEY=VALUE line per pair the     *)
(* function returned in this invocation, in order, and nothing else; under *)
(* a configuration that defines none, create writes no environment file.   *)
(***************************************************************************)
RECURSIVE FileLines(_)
\* the lines of a file whose every line ends with a newline
FileLines(content) ==
    IF content = <<>> THEN <<>>
    ELSE LET n == CHOOSE i \in DOMAIN content :
                     /\ content[i] = "\n"
                     /\ \A j \in 1..(i - 1) : content[j] # "\n"
         IN  <<SubSeq(content, 1, n - 1)>>
             \o FileLines(SubSeq(content, n + 1, Len(content)))

\* position of the first entry of op in the log, 0 if none
FirstIndex(op) ==
    LET S == {i \in DOMAIN log : log[i].op = op}
    IN  IF S = {} THEN 0 ELSE CHOOSE i \in S : \A j \in S : i <= j

C10_FileRewrittenBeforeLaunch ==
    (cmd = "new" /\ pc = "cr_session") =>
        IF HasEnvironment(config)
        THEN /\ Wrote
             /\ FirstIndex("writeFileSync") < FirstIndex("zellij -n -s")
             /\ envFile[label] # NoFile
             /\ envFile[label] # <<>> => Last(envFile[label]) = "\n"
             /\ FileLines(envFile[label]) =
                   [i \in DOMAIN envVars |->
                       <<envVars[i][1], "=", ToString(envVars[i][2])>>]
        ELSE ~Wrote

\* a create on an existing worktree has replaced the file's content
C10_Witness ==
    /\ cmd = "new"
    /\ pc = "cr_session"
    /\ existed
    /\ envVars = <<<<"ADMIN_PORT", 3002>>>>
    /\ envFile[label] = <<"ADMIN_PORT", "=", "3002", "\n">>

\* the claim as first stated: every create that launches the session has
\* rewritten the file from this invocation's pairs
C10_AlwaysRewritten ==
    (cmd = "new" /\ pc = "cr_session") =>
        /\ Wrote
        /\ envFile[label] = EnvContent(envVars)

(***************************************************************************)
(* Vocabulary of the session and label properties.                         *)
(***************************************************************************)
SpawnOps == {"zellij -n -s", "zellij attach"}

\* a label argument was typed on the command line
Typed == argv # Undef /\ argv # NoLabel

\* the process is past the label test of its entry point
PastValidation ==
    pc \notin {"idle", "cr_validate", "cli_validate", "op_validate"}

(***************************************************************************)
(* C11.  create launches in spawn-or-attach mode: it issues the spawn of a *)
(* new session with the layout only when no session named for the label is *)
(* alive; over a session that is alive it attaches instead.                *)
(***************************************************************************)
C11_SpawnOnlyWhenNotAlive ==
    (cmd = "new" /\ pc = "cr_session" /\ Last(log).op = "zellij -n -s") =>
        ~(zellij = "refused" /\ session[label] = "running")

(***************************************************************************)
(* C12.  When one of the creation commands of create (git worktree add,    *)
(* the scaffold copy, bun install) fails, the process has ended with       *)
(* status 1 at that command: the configuration was not loaded, the         *)
(* environment function was not called, no environment file was written,   *)
(* no session was launched and no prompt was asked.                        *)
(***************************************************************************)
C12_CreationFailureIsFatal ==
    \A i \in DOMAIN log :
        (log[i].op \in CreationOps /\ ~log[i].ok) =>
            /\ i = Len(log)
            /\ pc = "exited"
            /\ exitCode = 1
            /\ OpsOf(log, {"loadConfig", "environment", "writeFileSync",
                           "cleanupWorktree"}
                          \cup SpawnOps \cup Prompts) = <<>>
            /\ zellij = "none"
            /\ stdin = NoInput
            /\ envFile[label] = NoFile

\* the worktree was added and the scaffold copied, then bun install failed
C12_Witness ==
    /\ cmd = "new"
    /\ pc = "exited"
    /\ exitCode = 1
    /\ label \in Labels
    /\ dirExists[label]
    /\ scaffold[label]
    /\ Last(log) = Entry("bun install", label, FALSE)

(***************************************************************************)
(* C13.  After the session of create has exited the operator is prompted   *)
(* exactly once.  cleanupWorktree runs if and only if the answer, trimmed   *)
(* and lower-cased, is y or yes; on any other answer (an empty line         *)
(* included) the process ends with status 0 having changed nothing: the     *)
(* directory, the branch and the environment file are as they were.         *)
(***************************************************************************)
C13_AnswerDecidesCleanup ==
    /\ [](cmd = "new" =>
            /\ Len(OpsOf(log, {"prompt cleanup"})) <= 1
            /\ pc = "cr_prompt" =>
                  /\ OpsOf(log, Prompts) = <<>>
                  /\ Last(log).op = "zellij -n -s"
            /\ Calls # <<>> =>
                  Entry("prompt cleanup", label, TRUE) \in Range(log)
            /\ (pc = "exited" /\ log # <<>> /\ Last(log).op = "zellij -n -s") =>
                  exitCode = 1)
    /\ [][(cmd = "new" /\ pc = "cr_prompt" /\ pc' # "cr_prompt") =>
            /\ Len(OpsOf(log', {"prompt cleanup"})) = 1
            /\ (pc' = "cl_exists") <=>
                  (ToLowerCase(Trim(stdin)) \in {<<"y">>, <<"y", "e", "s">>})
            /\ pc' # "cl_exists" =>
                  /\ pc' = "exited"
                  /\ exitCode' = 0
                  /\ Calls' = <<>>
                  /\ UNCHANGED worldVars
                  /\ dirExists[label] /\ branch[label]]_vars

\* the operator declined and the worktree of the session is still there
C13_Witness ==
    /\ cmd = "new"
    /\ pc = "exited"
    /\ exitCode = 0
    /\ Last(log) = Entry("prompt cleanup", label, FALSE)
    /\ dirExists[label]
    /\ branch[label]
    /\ envFile[label] # NoFile
    /\ branchCommits[label] # <<>>

(***************************************************************************)
(* C14.  The session handoff blocks.  While the zellij child runs the      *)
(* process waits on it and has issued nothing since the spawn; the cleanup *)
(* prompt of create is asked only after the child has exited, directly     *)
(* after the spawn; open ends only after the child has exited.             *)
(***************************************************************************)
C14_HandoffBlocks ==
    /\ zellij # "none" =>
          /\ pc \in {"cr_session", "op_session"}
          /\ Last(log).op \in SpawnOps
          /\ Last(log).ok
          /\ stdin = NoInput
    /\ pc = "cr_prompt" => zellij = "none"
    /\ \A i \in DOMAIN log :
          log[i].op = "prompt cleanup" =>
              /\ zellij = "none"
              /\ i > 1
              /\ log[i - 1] = Entry("zellij -n -s", label, TRUE)
    /\ (cmd = "open" /\ pc = "exited") => zellij = "none"

\* the child of create has exited (the operator detached) and the prompt is
\* up next
C14_Witness ==
    /\ cmd = "new"
    /\ pc = "cr_prompt"
    /\ zellij = "none"
    /\ session[label] = "running"
    /\ Last(log) = Entry("zellij -n -s", label, TRUE)

(***************************************************************************)
(* C15.  open on a label whose worktree directory does not exist ends with *)
(* status 1 at the existence check: the configuration was not loaded, the  *)
(* sessions were not listed and nothing was spawned or attached.           *)
(***************************************************************************)
C15_OpenOfMissingIsFatal ==
    (/\ cmd = "open"
     /\ label \in Labels
     /\ pc \notin {"idle", "op_validate", "op_exists"}
     /\ ~dirExists[label]) =>
        /\ pc = "exited"
        /\ exitCode = 1
        /\ log = <<>>
        /\ sessions = <<>>
        /\ zellij = "none"

\* open of a worktree whose directory was deleted by hand, with its session
\* still listed
C15_Witness ==
    /\ cmd = "open"
    /\ pc = "exited"
    /\ exitCode = 1
    /\ label \in Labels
    /\ ~dirExists[label]
    /\ registered[label]
    /\ session[label] # "none"
    /\ config # "missing"
    /\ log = <<>>

(***************************************************************************)
(* C16.  open never provisions and never tears down.  It issues nothing    *)
(* but the configuration load, the session listing and the spawn or        *)
(* attach; it scans no port and asks no prompt; and no step of it changes  *)
(* a worktree directory, a registration, a branch, main, an environment    *)
(* file, the scaffold or the installed dependencies.                       *)
(***************************************************************************)
C16_OpenHasNoOtherEffect ==
    /\ [](cmd = "open" =>
            /\ \A i \in DOMAIN log :
                  log[i].op \in {"loadConfig", "zellij list-sessions"}
                                \cup SpawnOps
            /\ stdin = NoInput
            /\ probed = <<>>
            /\ pc \in {"op_validate", "op_exists", "op_config", "op_list",
                       "op_session", "exited"})
    /\ [][cmd' = "open" =>
            UNCHANGED <<dirExists, registered, branch, branchCommits, main,
                        envFile, scaffold, installed, config>>]_vars

\* an open has ended normally on a worktree with an environment file
C16_Witness ==
    /\ cmd = "open"
    /\ pc = "exited"
    /\ exitCode = 0
    /\ Last(log).op \in SpawnOps
    /\ envFile[label] # NoFile
    /\ branchCommits[label] # <<>>

(***************************************************************************)
(* C17.  In open the spawn follows the session listing: when the session   *)
(* named for the label is among the listed lines the child is zellij       *)
(* attach (no layout); when no listed line contains the name, or the       *)
(* listing failed, the child is zellij -n layout -s name.  Either child is *)
(* started for the label in hand, whose worktree directory exists.         *)
(***************************************************************************)
C17_AttachIffListed ==
    (cmd = "open" /\ pc = "op_session") =>
        LET name == SessionName(label)
            listing == log[Len(log) - 1]
        IN  /\ Len(log) >= 2
            /\ listing.op = "zellij list-sessions"
            /\ Last(log).op \in SpawnOps
            /\ Last(log).arg = label
            /\ dirExists[label]
            /\ ~listing.ok => sessions = <<>>
            /\ (\E i \in DOMAIN sessions : sessions[i] = name) =>
                  Last(log).op = "zellij attach"
            /\ (\A i \in DOMAIN sessions : ~Includes(sessions[i], name)) =>
                  Last(log).op = "zellij -n -s"

\* two sessions are listed, the second is the label's, and open attaches
C17_Witness ==
    /\ cmd = "open"
    /\ pc = "op_session"
    /\ Len(sessions) = 2
    /\ sessions[2] = SessionName(label)
    /\ zellij = "attached"
    /\ Last(log) = Entry("zellij attach", label, TRUE)

(***************************************************************************)
(* C18.  The label typed for new, open or cleanup passes validation if and *)
(* only if it is non-empty and made of letters, digits, underscores and    *)
(* hyphens: a command past its label test has a valid label argument, and  *)
(* a command given any other string has ended with status 1.               *)
(***************************************************************************)
C18_ValidationDecides ==
    (Typed /\ PastValidation) =>
        IF Len(argv) > 0 /\ \A i \in DOMAIN argv : argv[i] \in LabelChars
        THEN label = argv
        ELSE pc = "exited" /\ exitCode = 1 /\ log = <<>>

(***************************************************************************)
(* C19.  A label with a character outside [A-Za-z0-9_-], given to new,     *)
(* open or cleanup, ends the command with status 1 before any side effect: *)
(* no command was issued, no configuration loaded, no file written, no     *)
(* session spawned, no port probed and no prompt asked.                    *)
(***************************************************************************)
C19_BadCharacterIsFatalFirst ==
    (/\ Typed
     /\ \E i \in DOMAIN argv : argv[i] \notin LabelChars
     /\ PastValidation) =>
        /\ pc = "exited"
        /\ exitCode = 1
        /\ log = <<>>
        /\ zellij = "none"
        /\ stdin = NoInput
        /\ sessions = <<>>
        /\ probed = <<>>
        /\ envVars = <<>>

\* wt cleanup .. has ended at the label test
C19_Witness ==
    /\ cmd = "cleanup"
    /\ argv = <<".", ".">>
    /\ pc = "exited"
    /\ exitCode = 1
    /\ log = <<>>

PairFree(p) == p \notin inUse /\ (p + 1) \notin inUse

\* the probes made so far are those of the candidates PortLow, PortLow+1, ...
\* in that order, the lower port of a candidate first
ScannedUpwards ==
    \A i \in DOMAIN pairProbed :
        pairProbed[i] = PortLow + ((i - 1) \div 2) + ((i - 1) % 2)

C21_LowestAdjacentPair ==
    /\ ScannedUpwards
    /\ ppc = "returned" =>
          /\ webhookPort \in PortLow..(PortHigh - 1)
          /\ adminPort = webhookPort + 1
          /\ PairFree(webhookPort)
          /\ \A q \in PortLow..(webhookPort - 1) : ~PairFree(q)
    /\ ppc = "thrown" => \A q \in PortLow..(PortHigh - 1) : ~PairFree(q)

\* only 3006 and 3007 are free: the pair returned is admin 3007, webhook 3006
C21_Witness ==
    /\ inUse = (PortLow..PortHigh) \ {PortLow + 4, PortLow + 5}
    /\ ppc = "returned"
    /\ adminPort = PortLow + 5
    /\ webhookPort = PortLow + 4


(***************************************************************************)
(* C22: when no port of the range is free the allocator throws, and the    *)
(* create that called it ends with status 1 without launching a session    *)
(* and without asking the cleanup prompt; nothing is rolled back: the      *)
(* worktree, its branch, the scaffold copy and the install it made stay.   *)
(***************************************************************************)
\* the commands of ops this invocation ran with success
Ran(ops) == Succeeded(OpsOf(log, ops)) # <<>>

C22_NoPortIsFatal ==
    (cmd = "new" /\ fpc = "thrown") =>
        /\ \A p \in PortLow..(PortHigh - 1) : p \in inUse
        /\ pc \in {"cr_alloc", "exited"}
        /\ pc = "exited" => exitCode = 1
        /\ OpsOf(log, {"zellij -n -s", "writeFileSync"} \cup Prompts) = <<>>
        /\ Ran({"git worktree add"}) =>
              dirExists[label] /\ registered[label] /\ branch[label]
        /\ Ran({"cp -r local"}) => scaffold[label]
        /\ Ran({"bun install"}) => installed[label]

\* create made the worktree, copied the scaffold, installed, and then
\* ended with status 1 because the allocator threw
C22_Witness ==
    /\ cmd = "new"
    /\ fpc = "thrown"
    /\ pc = "exited"
    /\ exitCode = 1
    /\ Ran({"git worktree add"})
    /\ Ran({"cp -r local"})
    /\ Ran({"bun install"})
    /\ Last(log) = Entry("environment", label, FALSE)

(***************************************************************************)
(* C23: hasUnmergedCommits(label) is true if and only if git log           *)
(* main..label printed something, and it fails soft: when the query fails  *)
(* it is false, cleanup asks no cherry-pick prompt and goes on to the      *)
(* removal of the worktree without failing.                                *)
(***************************************************************************)
\* the git log query of the cleanup in hand, if it ran
QueryOf(l) == OpsOf(SinceCall(l), {"git log main.."})

\* the step in which hasUnmergedCommits returns
UnmergedAnswered ==
    /\ pc = "cl_log"
    /\ pc' # "cl_log"
    /\ LET ok == Last(log').ok
       IN  /\ Last(log').op = "git log main.."
           /\ hasUnmerged' = (ok /\ Len(branchCommits[label]) > 0)
           /\ ~ok => pc' = "cl_remove" /\ exitCode' = exitCode
           /\ pc' = (IF hasUnmerged' THEN "cl_prompt" ELSE "cl_remove")

\* after a failed query the cleanup in hand asks no cherry-pick prompt
NoPromptAfterFailedQuery ==
    (pc \in {"cl_prompt", "cl_checkout", "cl_revlist", "cl_pick", "cl_remove",
             "cl_branch", "cl_session"}
        /\ QueryOf(label) # <<>> /\ ~Last(QueryOf(label)).ok) =>
        /\ OpsOf(SinceCall(label), {"prompt cherry-pick"}) = <<>>
        /\ pc \notin {"cl_prompt", "cl_checkout", "cl_revlist", "cl_pick"}

C23_UnmergedIffLogFailsSoft ==
    /\ []NoPromptAfterFailedQuery
    /\ [][pc = "cl_log" => UnmergedAnswered]_vars

\* the query failed for a branch that has commits main has not: cleanup is
\* at the removal, having asked nothing
C23_Witness ==
    /\ pc = "cl_remove"
    /\ label \in Labels
    /\ branchCommits[label] # <<>>
    /\ ~hasUnmerged
    /\ Last(log) = Entry("git log main..", label, FALSE)

(***************************************************************************)
(* C24: the list of worktrees is exactly the labels of the registered      *)
(* worktrees under the worktrees directory, one whose directory was        *)
(* deleted by hand included, and a cleanup of such a label that ends       *)
(* without an error has removed its registration.                          *)
(***************************************************************************)
C24_StaleRegistrationRemoved ==
    /\ (cmd = "cleanupAll" /\ pc = "ca_prompt") =>
          Range(worktrees) = {l \in Labels : registered[l]}
    /\ (cmd = "cleanup" /\ pc = "exited" /\ exitCode = 0
            /\ label \in Labels) => ~registered[label]

(***************************************************************************)
(* C25: every error of a command wt runs is fatal, the process ending with *)
(* a non-zero status, except a failed session deletion and a failed        *)
(* unmerged-commit query, which are swallowed: they alone do not make the  *)
(* status non-zero.                                                        *)
(***************************************************************************)
\* the errors the specification lets wt swallow
SoftFailures == {"zellij delete-session", "git log main.."}

\* the commands of this invocation that failed
Failed == SelectSeq(log, LAMBDA e : ~e.ok /\ e.op \notin Prompts)

C25_OnlySoftFailuresSwallowed ==
    pc = "exited" =>
        /\ (\E i \in DOMAIN Failed : Failed[i].op \notin SoftFailures)
              => exitCode # 0
        /\ (Failed # <<>> /\ \A i \in DOMAIN Failed :
                                Failed[i].op = "zellij delete-session")
              => exitCode = 0

(***************************************************************************)
(* C27: wt init is idempotent.  It writes the layout and the configuration *)
(* only when they are absent and never overwrites them; it appends the     *)
(* worktrees line to .gitignore only if no line of the file is that line   *)
(* up to surrounding whitespace; a later init changes nothing.  After      *)
(* init the file has such a line, as many of them as before or one if      *)
(* there was none, and the lines it had are kept, in order, up to the      *)
(* whitespace at the end of the file, which gives way to one newline       *)
(* before the appended line.                                               *)
(***************************************************************************)
\* the step is a run of wt init
InitRan == ipc' = ipc + 1

\* the lines of a file; no file has no lines
LinesOf(file) == IF file = NoFile THEN <<>> ELSE Split(file)

\* the lines that are the worktrees line up to surrounding whitespace
PatternLines(file) ==
    SelectSeq(LinesOf(file), LAMBDA line : Trim(line) = <<WorktreesPattern>>)

\* the lines that are exactly the worktrees line
ExactLines(file) ==
    SelectSeq(LinesOf(file), LAMBDA line : line = <<WorktreesPattern>>)

\* the lines of a text file: a newline at the end of the file ends its
\* last line and starts no further one
TextLines(file) ==
    LET pieces == LinesOf(file)
    IN  IF pieces # <<>> /\ Last(pieces) = <<>>
        THEN SubSeq(pieces, 1, Len(pieces) - 1)
        ELSE pieces

\* the lines that are not exactly the worktrees line
OtherLines(file) ==
    SelectSeq(TextLines(file), LAMBDA line : line # <<WorktreesPattern>>)

\* the lines of the file without the whitespace at its end
BodyLines(file) == IF file = NoFile THEN <<>> ELSE Split(TrimEnd(file))

C27_InitIdempotent ==
    [][InitRan =>
        /\ layoutFile' = (IF layoutFile = "absent" THEN "template"
                                                   ELSE layoutFile)
        /\ config' = (IF config = "missing" THEN "env" ELSE config)
        /\ PatternLines(gitignore') # <<>>
        /\ PatternLines(gitignore) # <<>> => gitignore' = gitignore
        /\ (gitignore # NoFile /\ PatternLines(gitignore) = <<>>) =>
              /\ Split(gitignore') =
                    BodyLines(gitignore) \o <<<<WorktreesPattern>>, <<>>>>
              /\ Len(ExactLines(gitignore')) = 1
        /\ gitignore = NoFile => gitignore' = <<WorktreesPattern, "\n">>
        /\ ipc >= 1 => UNCHANGED <<layoutFile, config, gitignore>>
    ]_vars

\* init ran twice on a file of one line that is not the worktrees line:
\* the line was appended once, and the layout was written
C27_Witness ==
    /\ ipc = 2
    /\ gitignore = <<"x", "\n", WorktreesPattern, "\n">>
    /\ layoutFile = "template"

\* the statement with the exact line: after a run of init .gitignore has
\* the exact worktrees line once (when it had it at most once before) and
\* all its other lines are as they were
C27_ExactLineOnceOthersKept ==
    [][InitRan =>
        /\ Len(ExactLines(gitignore)) <= 1 => Len(ExactLines(gitignore')) = 1
        /\ OtherLines(gitignore') = OtherLines(gitignore)
    ]_vars

(***************************************************************************)
(* C26: with two wt new of the same label running at once, git worktree    *)
(* add succeeds only while the label has no worktree and no branch: when   *)
(* both processes found the directory absent, the add of the second is     *)
(* refused, and that process ends with status 1 having written no          *)
(* environment file and launched no session.                               *)
(***************************************************************************)
\* the process with registers r had its git worktree add refused
AddFailedIn(r) ==
    \E i \in DOMAIN r.log :
        r.log[i].op = "git worktree add" /\ ~r.log[i].ok

\* a process whose add was refused has ended with status 1, and ran
\* nothing after the add
RefusedIsFatal(r) ==
    (r.cmd = "new" /\ AddFailedIn(r)) =>
        /\ r.pc = "exited"
        /\ r.exitCode = 1
        /\ Last(r.log).op = "git worktree add"
        /\ OpsOf(r.log, {"environment", "writeFileSync", "zellij -n -s"}
                            \cup Prompts) = <<>>

\* the step is the git worktree add of the process that steps
AddRan ==
    /\ parked' = parked
    /\ pc = "cr_add"
    /\ Len(log') = Len(log) + 1
    /\ Last(log').op = "git worktree add"

\* the label has a worktree or a branch already
LabelTaken == dirExists[label] \/ registered[label] \/ branch[label]

C26_SecondCreationRefused ==
    /\ [](RefusedIsFatal(Registers)
            /\ \A i \in DOMAIN parked : RefusedIsFatal(parked[i]))
    /\ [][AddRan =>
            /\ Last(log').ok => ~LabelTaken
            /\ LabelTaken =>
                  /\ ~Last(log').ok
                  /\ pc' = "exited"
                  /\ exitCode' = 1
                  /\ UNCHANGED worldVars
         ]_vars

\* both processes found the directory absent; the add of one succeeded,
\* the add of the other was refused and it has ended with status 1
C26_Witness ==
    /\ parked # <<>>
    /\ parked[1].cmd = "new"
    /\ parked[1].label = label
    /\ ~parked[1].existed
    /\ parked[1].pc = "exited"
    /\ parked[1].exitCode = 1
    /\ parked[1].log = <<Entry("git worktree add", label, FALSE)>>
    /\ cmd = "new"
    /\ ~existed
    /\ pc = "cr_cp"
    /\ log = <<Entry("git worktree add", label, TRUE)>>
    /\ dirExists[label]

(***************************************************************************)
(* C28: cleanup can be retried after a partial failure: a cleanup of a     *)
(* label that ends without an error, an earlier cleanup having failed      *)
(* after the removal of the worktree, leaves no branch and no session for  *)
(* the label.                                                              *)
(***************************************************************************)
C28_RetryFinishesCleanup ==
    (cmd = "cleanup" /\ pc = "exited" /\ exitCode = 0 /\ label \in Labels) =>
        /\ ~branch[label]
        /\ session[label] = "none"

(***************************************************************************)
(* C29: every worktree in which create launches a session has the          *)
(* scaffold copy and the installed dependencies, also when an earlier      *)
(* create of the label was interrupted or failed after git worktree add    *)
(* and this create found the directory there.                              *)
(***************************************************************************)
C29_LaunchedWorktreeIsComplete ==
    (cmd = "new" /\ pc = "cr_session" /\ zellij = "session") =>
        /\ scaffold[label]
        /\ installed[label]

(***************************************************************************)
(* C30: the ports in the environment files of the worktrees that exist     *)
(* are pairwise distinct: no port is twice in one file, and no port is in  *)
(* the files of two worktrees.                                             *)
(***************************************************************************)
\* the positions of the values in an environment file
ValuePositions(l) ==
    IF envFile[l] = NoFile THEN {}
    ELSE {i \in DOMAIN envFile[l] : i % 4 = 3}

C30_LivePortsDistinct ==
    /\ \A l \in Labels :
          \A i, j \in ValuePositions(l) :
              i # j => envFile[l][i] # envFile[l][j]
    /\ \A l1, l2 \in Labels :
          (l1 # l2 /\ dirExists[l1] /\ dirExists[l2]) =>
              \A i \in ValuePositions(l1), j \in ValuePositions(l2) :
                  envFile[l1][i] # envFile[l2][j]

(***************************************************************************)
(* C31: cleanupAll asks the batch confirmation exactly once, and when the  *)
(* operator answers anything other than y or yes it calls cleanupWorktree  *)
(* for no label and leaves every worktree, branch and session as it was.   *)
(***************************************************************************)
\* the batch confirmations asked so far
BatchPrompts == OpsOf(log, {"prompt cleanup all"})

\* the line typed is y or yes, whatever its case and surrounding whitespace
SaidYes(data) == ToLowerCase(Trim(data)) \in {<<"y">>, <<"y", "e", "s">>}

C31_BatchConfirmedOnce ==
    /\ [](cmd = "cleanupAll" =>
            /\ Len(BatchPrompts) <= 1
            /\ pc \in {"ca_list", "ca_prompt"} => BatchPrompts = <<>>
            /\ Calls # <<>> => BatchConfirmed
            /\ (pc \notin {"idle", "ca_list", "ca_prompt", "exited"}) =>
                  BatchConfirmed)
    /\ [][(cmd = "cleanupAll" /\ pc = "ca_prompt" /\ pc' # "ca_prompt") =>
            /\ Len(OpsOf(log', {"prompt cleanup all"})) = 1
            /\ SaidYes(stdin) => pc' = "ca_loop"
            /\ ~SaidYes(stdin) =>
                  /\ pc' = "exited"
                  /\ exitCode' = 0
                  /\ Calls' = <<>>
                  /\ UNCHANGED worldVars]_vars

\* the operator declined the batch: the process has ended with the
\* worktrees it listed still there
C31_Witness ==
    /\ cmd = "cleanupAll"
    /\ pc = "exited"
    /\ exitCode = 0
    /\ Calls = <<>>
    /\ Last(log) = Entry("prompt cleanup all", Undef, FALSE)
    /\ Len(worktrees) = 2
    /\ \A i \in DOMAIN worktrees :
          registered[worktrees[i]] /\ branch[worktrees[i]]

ScanRange == PortLow..(PortHigh - 1)

C33_PairInsideRange ==
    /\ \A i \in DOMAIN pairProbed : pairProbed[i] \in ScanRange
    /\ ppc = "returned" =>
          /\ adminPort \in ScanRange
          /\ webhookPort \in ScanRange

(***************************************************************************)
(* C34: open takes the attach path only when the session of its own label  *)
(* is among the sessions zellij lists: the session of another label, one   *)
(* whose name has this label's session name as a prefix included, never    *)
(* makes open attach.                                                      *)
(***************************************************************************)
C34_AttachOnlyToOwnSession ==
    (cmd = "open" /\ pc = "op_session" /\ Last(log).op = "zellij attach") =>
        /\ \E i \in DOMAIN sessions : sessions[i] = SessionName(label)
        /\ session[label] # "none"

(***************************************************************************)
(* C35: cleanupWorktree(label) changes only what is keyed by that label,   *)
(* and main: in every step of it, whether it succeeds or fails, the        *)
(* directory, the registration, the branch and its commits, the            *)
(* environment file, the scaffold, the install and the session of every    *)
(* other label stay as they are.                                           *)
(***************************************************************************)
\* the positions of cleanupWorktree
CleanupPcs ==
    {"cl_exists", "cl_log", "cl_prompt", "cl_checkout", "cl_revlist",
     "cl_pick", "cl_remove", "cl_branch", "cl_session", "cl_return"}

\* what is keyed by l is the same after the step
KeptOf(l) ==
    /\ dirExists'[l] = dirExists[l]
    /\ registered'[l] = registered[l]
    /\ branch'[l] = branch[l]
    /\ branchCommits'[l] = branchCommits[l]
    /\ envFile'[l] = envFile[l]
    /\ scaffold'[l] = scaffold[l]
    /\ installed'[l] = installed[l]
    /\ session'[l] = session[l]

C35_CleanupTouchesOnlyItsLabel ==
    [][(pc \in CleanupPcs) =>
          /\ \A l \in Labels \ {label} : KeptOf(l)
          /\ config' = config
      ]_vars

\* cleanup removed the worktree, the branch and the session of its label,
\* and the other label still has its worktree, branch, file and session
C35_Witness ==
    /\ cmd = "cleanup"
    /\ pc = "exited"
    /\ exitCode = 0
    /\ Last(log) = Entry("zellij delete-session", label, TRUE)
    /\ ~dirExists[label]
    /\ ~branch[label]
    /\ \E l \in Labels \ {label} :
          /\ dirExists[l]
          /\ branch[l]
          /\ branchCommits[l] # <<>>
          /\ envFile[l] # NoFile
          /\ session[l] = "running"

====
